---- MODULE Spec2Model ----
(***************************************************************************)
(* A model of the cute-computer backend services:                          *)
(*   - the chunked blob store (worker/s3.ts, class S3),                    *)
(*   - the log store (class Logs),                                         *)
(*   - the path-confined file API of the container (container_src/main.go) *)
(* Strings of the program are TLA+ strings; bytes of a payload are the     *)
(* characters of a string.                                                 *)
(***************************************************************************)
EXTENDS Integers, Sequences, FiniteSets, TLC

VARIABLES
    objects,            \* rows of table objects (s3.ts:22)
    multipart_uploads,  \* rows of table multipart_uploads (s3.ts:35)
    multipart_parts,    \* rows of table multipart_parts (s3.ts:44)
    uuid,               \* number of upload ids minted by crypto.randomUUID()
    s3req,              \* the last request handed to S3.fetch
    s3resp,             \* the response S3.fetch gave to it
    s3cmd,              \* the bucket and key the client named in it (ghost)
    sent,               \* what the client uploaded to the live uploads (ghost)
    shadow,             \* what the client put under each of its keys (ghost)
    inflight,           \* the putObject calls suspended at an await
    fs,                 \* the container's filesystem: path -> node
    fileReq,            \* the last request handed to the container's ServeMux
    fileResp,           \* the response it got
    fsCalls,            \* the filesystem calls its handler made, in order
    posted,             \* the log lines the container sent to LOGS_ENDPOINT/write
    relativePath,       \* the argument of validateAndResolvePath
    resolved,           \* what validateAndResolvePath returned for it
    logs,               \* rows of table logs (class Logs)
    rowid,              \* the last rowid given out by table logs
    now,                \* Date.now(), in milliseconds
    logReq,             \* the last call of Logs.getLogs / Logs.writeLogs
    logResp,            \* the rows getLogs returned
    computers,          \* rows of table computers (computers.ts:34)
    minted,             \* number of secrets minted by crypto.randomUUID()
    regReq,             \* the last call of a method of class Computers
    regResp,            \* what it returned
    secretsCache,       \* Logs.secretsCache: computer name -> secrets
    httpReq,            \* the last HTTP request handed to Logs.fetch
    httpResp,           \* the response to it, and what fetch did for it
    hpc,                \* handleWebSocket: where the handler stands
    ppc,                \* where the ping goroutine stands
    rpc,                \* where the goroutine that copies the pty stands
    mu,                 \* ptySession.mu: the activity that holds it, or ""
    closed,             \* ptySession.closed
    teardowns,          \* executions of the teardown body of close (ghost)
    ptmxOpen,           \* the pty file descriptor is open
    shell,              \* the shell process: running, exited, killed, reaped
    ws,                 \* the WebSocket: open, failed (client side), closed
    inbox,              \* the frames of the client not yet read (at most one)
    outbuf,             \* chunks of shell output not yet read from the pty
    ticking,            \* the ping ticker has not been stopped
    toShell,            \* what ptmx.Write wrote to the pty, in order
    winsize,            \* the window size of the pty, <<rows, cols>>
    configFile,         \* config.json as written: a sequence of lexical segments
    configRead,         \* the segments loadConfig read last, <<>> before it ran
    configData          \* what sanitizeJSONC made of them

s3vars == <<objects, multipart_uploads, multipart_parts, uuid, s3req, s3resp,
            s3cmd, sent, shadow, inflight>>

filevars == <<fs, fileReq, fileResp, fsCalls, posted>>

pathvars == <<relativePath, resolved>>

logvars == <<logs, rowid, now, logReq, logResp>>

regvars == <<computers, minted, regReq, regResp>>

authvars == <<secretsCache, httpReq, httpResp>>

ptyvars == <<hpc, ppc, rpc, mu, closed, teardowns, ptmxOpen, shell, ws, inbox,
             outbuf, ticking>>

termvars == <<toShell, winsize>>

confvars == <<configFile, configRead, configData>>

vars == <<s3vars, filevars, pathvars, logvars, regvars, authvars, ptyvars,
          termvars, confvars>>

\* What the operations of one service leave alone.
exceptS3 == <<filevars, pathvars, logvars, regvars, authvars, ptyvars,
    termvars, confvars>>
exceptFiles == <<s3vars, pathvars, logvars, regvars, authvars, ptyvars,
    termvars, confvars>>
exceptPath == <<s3vars, filevars, logvars, regvars, authvars, ptyvars,
    termvars, confvars>>
exceptLogs == <<s3vars, filevars, pathvars, regvars, authvars, ptyvars,
    termvars, confvars>>
exceptRegistry == <<s3vars, filevars, pathvars, logvars, authvars, ptyvars,
    termvars, confvars>>
exceptTerminal == <<s3vars, filevars, pathvars, logvars, regvars, authvars,
    confvars>>
exceptConfig == <<s3vars, filevars, pathvars, logvars, regvars, authvars,
    ptyvars, termvars>>
exceptPty == <<exceptTerminal, termvars>>

----------------------------------------------------------------------------
(* Bounds of the model *)

MaxPayloadLen == 3      \* longest PutObject body, in bytes
MaxUploads == 1         \* multipart uploads created in one run

----------------------------------------------------------------------------
(* Characters and strings *)

Min(a, b) == IF a < b THEN a ELSE b

\* The characters the model uses, in ascending ASCII order.
Ascii == " !%&./0123456789:<>ABCDEFGHIJKLMNOPQRSTUVWXYZ_abcdefghijklmnopqrstuvwxyz"

CharAt(s, i) == SubSeq(s, i, i)

\* The rank of a one-character string in ASCII order (byte comparison).
Code(c) == CHOOSE i \in 1..Len(Ascii) : CharAt(Ascii, i) = c

\* ASCII lower-casing of one character, as SQLite's LIKE folds it.
LowerOf ==
    LET upper == "ABCDEFGHIJKLMNOPQRSTUVWXYZ"
        lower == "abcdefghijklmnopqrstuvwxyz"
    IN  [c \in {CharAt(upper, i) : i \in 1..Len(upper)} |->
            CharAt(lower, CHOOSE i \in 1..Len(upper) : CharAt(upper, i) = c)]

LowerChar(c) == IF c \in DOMAIN LowerOf THEN LowerOf[c] ELSE c

\* s < t in byte order (SQLite's BINARY collation of `key > ?`, ORDER BY key).
RECURSIVE StrLess(_, _)
StrLess(s, t) ==
    IF Len(t) = 0 THEN FALSE
    ELSE IF Len(s) = 0 THEN TRUE
    ELSE IF CharAt(s, 1) = CharAt(t, 1) THEN StrLess(Tail(s), Tail(t))
    ELSE Code(CharAt(s, 1)) < Code(CharAt(t, 1))

\* String.prototype.startsWith / strings.HasPrefix
StartsWith(s, p) == Len(p) <= Len(s) /\ SubSeq(s, 1, Len(p)) = p

\* String.prototype.split(sep) for a one-character separator.
RECURSIVE SplitFrom(_, _, _)
SplitFrom(s, sep, cur) ==
    IF Len(s) = 0 THEN <<cur>>
    ELSE IF CharAt(s, 1) = sep THEN <<cur>> \o SplitFrom(Tail(s), sep, "")
    ELSE SplitFrom(Tail(s), sep, cur \o CharAt(s, 1))

Split(s, sep) == SplitFrom(s, sep, "")

\* Array.prototype.join(sep) / strings.Join
RECURSIVE Join(_, _)
Join(parts, sep) ==
    IF Len(parts) = 0 THEN ""
    ELSE IF Len(parts) = 1 THEN parts[1]
    ELSE parts[1] \o sep \o Join(Tail(parts), sep)

\* Array.prototype.filter((p) => p.length > 0)
RECURSIVE NonEmptyParts(_)
NonEmptyParts(parts) ==
    IF Len(parts) = 0 THEN <<>>
    ELSE IF Len(parts[1]) > 0 THEN <<parts[1]>> \o NonEmptyParts(Tail(parts))
    ELSE NonEmptyParts(Tail(parts))

----------------------------------------------------------------------------
(* Chunked blob store: worker/s3.ts *)

\* 1 MiB in the program; scaled to 2 bytes so that payloads of a few bytes
\* are smaller than, equal to and larger than one chunk.
CHUNK_SIZE == 2

NoParam == "<none>"         \* URLSearchParams.get() === null
DEFAULT_CONTENT_TYPE == "application/octet-stream"
DEFAULT_MAX_KEYS == "1000"

\* Uint8Array.prototype.slice(start, end)
Slice(data, start, end) == SubSeq(data, start + 1, Min(end, Len(data)))

\* crypto.subtle.digest("MD5", data), hex-encoded: a tag determined by the bytes.
MD5(data) == "md5:" \o data

ObjectRow(bucket, key, chunk_index, size, etag, content_type, data) ==
    [bucket |-> bucket, key |-> key, chunk_index |-> chunk_index, size |-> size,
     etag |-> etag, content_type |-> content_type, data |-> data]

PartRow(upload_id, part_number, chunk_index, size, etag, data) ==
    [upload_id |-> upload_id, part_number |-> part_number,
     chunk_index |-> chunk_index, size |-> size, etag |-> etag, data |-> data]

UploadRow(upload_id, bucket, key, content_type) ==
    [upload_id |-> upload_id, bucket |-> bucket, key |-> key,
     content_type |-> content_type]

\* The loop `for (offset = CHUNK_SIZE; offset < size; offset += CHUNK_SIZE)`:
\* the pairs <<chunkIndex, chunk>> it inserts.
RECURSIVE ChunkLoop(_, _, _)
ChunkLoop(data, offset, chunkIndex) ==
    IF offset < Len(data)
    THEN {<<chunkIndex, Slice(data, offset, Min(offset + CHUNK_SIZE, Len(data)))>>}
            \cup ChunkLoop(data, offset + CHUNK_SIZE, chunkIndex + 1)
    ELSE {}

\* A variant of FirstChunk that stores the whole body in chunk 0.
FirstChunkWhole(data) == data

\* The data stored in chunk 0.
FirstChunk(data) ==
    IF Len(data) = 0 THEN "" ELSE Slice(data, 0, Min(CHUNK_SIZE, Len(data)))

\* The chunks after chunk 0: only `if (size > CHUNK_SIZE)`.
RestChunks(data) ==
    IF Len(data) > CHUNK_SIZE THEN ChunkLoop(data, CHUNK_SIZE, 1) ELSE {}

\* A response of S3.fetch. Every response has all fields; the ones an operation
\* does not set keep these defaults.
Response(op, status) ==
    [op |-> op, status |-> status, code |-> "", contentLength |-> -1, etag |-> "",
     body |-> "", keys |-> <<>>, keyCount |-> 0, isTruncated |-> FALSE,
     nextContinuationToken |-> "", uploadId |-> ""]

errorResponse(op, code, status) == [Response(op, status) EXCEPT !.code = code]

\* A signed token, as far as the program looks into it: the number of its
\* dot-separated parts, whether the second part decodes to JSON, the claim
\* sub, the secret it was signed with and whether it has expired.
JWT(sub, key, expired) ==
    [parts |-> 3, decodable |-> TRUE, sub |-> sub, key |-> key,
     expired |-> expired]

\* verifyToken(token, secrets): the claims, or an exception (FALSE) when no
\* secret of the list validates the signature or the token has expired.
verifyToken(token, secrets) ==
    /\ \E i \in 1..Len(secrets) : secrets[i] = token.key
    /\ ~token.expired

\* The header `Authorization: <scheme> <token>`
Authorization(scheme, token) == [scheme |-> scheme, token |-> token]

\* A request without the header
NoAuthorization == Authorization("", JWT("", "", FALSE))

\* A request to S3.fetch: method, URL path (percent-encoded, as URL.pathname
\* gives it), the query parameters the handlers read, the body, and the
\* Authorization header (none unless the sender sets one).
Request(method, pathname, body) ==
    [method |-> method, pathname |-> pathname, body |-> body,
     authorization |-> NoAuthorization,
     uploads |-> FALSE, uploadId |-> NoParam, partNumber |-> NoParam,
     prefix |-> NoParam, maxKeys |-> NoParam, startAfter |-> NoParam,
     continuationToken |-> NoParam]

\* `params.get(name) || dflt`
OrDefault(v, dflt) == IF v = NoParam \/ v = "" THEN dflt ELSE v

\* parseInt of a string of decimal digits.
DigitValue(c) == CHOOSE d \in 0..9 : CharAt("0123456789", d + 1) = c

RECURSIVE ParseIntFrom(_, _)
ParseIntFrom(s, acc) ==
    IF Len(s) = 0 THEN acc
    ELSE ParseIntFrom(Tail(s), 10 * acc + DigitValue(CharAt(s, 1)))

parseInt(s) == ParseIntFrom(s, 0)

\* The rows of one object, in chunk_index order (ORDER BY chunk_index).
RECURSIVE OrderByChunkIndex(_)
OrderByChunkIndex(rows) ==
    IF rows = {} THEN <<>>
    ELSE LET r == CHOOSE x \in rows : \A y \in rows : x.chunk_index <= y.chunk_index
         IN <<r>> \o OrderByChunkIndex(rows \ {r})

\* The loop `for (const chunk of chunks) combinedData.set(chunkData, offset)`.
RECURSIVE ConcatData(_)
ConcatData(rows) ==
    IF Len(rows) = 0 THEN "" ELSE rows[1].data \o ConcatData(Tail(rows))

\* new Uint8Array(n): n zero bytes.
RECURSIVE Zeros(_)
Zeros(n) == IF n <= 0 THEN "" ELSE "0" \o Zeros(n - 1)

\* S3.getObject against the table `objs`.
getObjectIn(objs, bucket, key, headOnly) ==
    LET op == IF headOnly THEN "HeadObject" ELSE "GetObject"
        rows == {r \in objs : r.bucket = bucket /\ r.key = key /\ r.chunk_index = 0}
        chunks == {r \in objs : r.bucket = bucket /\ r.key = key}
    IN  IF rows = {} THEN errorResponse(op, "NoSuchKey", 404)
        ELSE LET row == CHOOSE r \in rows : TRUE
                 headers == [Response(op, 200) EXCEPT
                                !.contentLength = row.size, !.etag = row.etag]
                 all == ConcatData(OrderByChunkIndex(chunks))
             IN  IF headOnly THEN headers
                 ELSE IF Len(all) > row.size
                      \* combinedData.set() past the end throws RangeError
                      THEN errorResponse(op, "InternalError", 500)
                 ELSE [headers EXCEPT !.body = all \o Zeros(row.size - Len(all))]

getObject(bucket, key, headOnly) == getObjectIn(objects, bucket, key, headOnly)

\* SQLite `str LIKE pattern` (no ESCAPE clause): '%' matches any run of
\* characters, '_' any one character, letters match case-insensitively.
RECURSIVE Like(_, _)
Like(str, pattern) ==
    IF Len(pattern) = 0 THEN Len(str) = 0
    ELSE IF CharAt(pattern, 1) = "%"
         THEN Like(str, Tail(pattern)) \/ (Len(str) > 0 /\ Like(Tail(str), pattern))
    ELSE IF Len(str) = 0 THEN FALSE
    ELSE IF CharAt(pattern, 1) = "_" THEN Like(Tail(str), Tail(pattern))
    ELSE LowerChar(CharAt(str, 1)) = LowerChar(CharAt(pattern, 1))
            /\ Like(Tail(str), Tail(pattern))

\* The WHERE clause that listObjectsV2 builds for the prefix.
PrefixFilter(key, prefix) == prefix = "" \/ Like(key, prefix \o "%")

\* ORDER BY key
RECURSIVE OrderByKey(_)
OrderByKey(keys) ==
    IF keys = {} THEN <<>>
    ELSE LET k == CHOOSE x \in keys : \A y \in keys : ~StrLess(y, x)
         IN <<k>> \o OrderByKey(keys \ {k})

\* LIMIT n (a negative n is no limit in SQLite)
Limit(seq, n) == IF n < 0 THEN seq ELSE SubSeq(seq, 1, Min(n, Len(seq)))

\* Array.prototype.slice(0, n) (a negative n counts from the end)
SliceTo(seq, n) ==
    IF n < 0 THEN SubSeq(seq, 1, Len(seq) + n) ELSE SubSeq(seq, 1, Min(n, Len(seq)))

\* S3.listObjectsV2: the response for the table `objs`.
listObjectsV2In(objs, bucket, params) ==
    LET prefix == OrDefault(params.prefix, "")
        maxKeys == parseInt(OrDefault(params.maxKeys, DEFAULT_MAX_KEYS))
        startAfter == OrDefault(params.startAfter, "")
        continuationToken == OrDefault(params.continuationToken, "")
        after == OrDefault(continuationToken, startAfter)
        matching == {r.key : r \in {x \in objs :
                        /\ x.bucket = bucket /\ x.chunk_index = 0
                        /\ PrefixFilter(x.key, prefix)
                        /\ (continuationToken # "" \/ startAfter # "")
                                => StrLess(after, x.key)}}
        rows == Limit(OrderByKey(matching), maxKeys + 1)
        isTruncated == Len(rows) > maxKeys
        objs_page == SliceTo(rows, maxKeys)
    IN  [Response("ListObjectsV2", 200) EXCEPT
            !.keys = objs_page,
            !.keyCount = Len(objs_page),
            !.isTruncated = isTruncated,
            !.nextContinuationToken =
                IF isTruncated /\ Len(objs_page) > 0
                THEN objs_page[Len(objs_page)] ELSE ""]

listObjectsV2(bucket, params) == listObjectsV2In(objects, bucket, params)

\* The rows putObject inserts for (bucket, key).
PutRows(bucket, key, data, contentType) ==
    {ObjectRow(bucket, key, 0, Len(data), MD5(data), contentType, FirstChunk(data))}
        \cup {ObjectRow(bucket, key, c[1], 0, "", "", c[2]) : c \in RestChunks(data)}

\* DELETE FROM objects WHERE bucket = ? AND key = ? AND chunk_index = 0
DeleteChunkZero(objs, bucket, key) ==
    {r \in objs : ~(r.bucket = bucket /\ r.key = key /\ r.chunk_index = 0)}

\* DELETE FROM objects WHERE bucket = ? AND key = ?
DeleteObjectRows(objs, bucket, key) ==
    {r \in objs : ~(r.bucket = bucket /\ r.key = key)}

\* S3.putObject
putObject(bucket, key, request) ==
    /\ objects' = DeleteObjectRows(objects, bucket, key)
                    \cup PutRows(bucket, key, request.body, DEFAULT_CONTENT_TYPE)
    /\ s3resp' = [Response("PutObject", 200) EXCEPT !.etag = MD5(request.body)]
    /\ UNCHANGED <<multipart_uploads, multipart_parts, uuid>>

\* S3.deleteObject
deleteObject(bucket, key) ==
    /\ objects' = DeleteObjectRows(objects, bucket, key)
    /\ s3resp' = Response("DeleteObject", 204)
    /\ UNCHANGED <<multipart_uploads, multipart_parts, uuid>>

\* S3.headBucket
headBucket(bucket) == Response("HeadBucket", 200)

\* crypto.randomUUID() for the n-th upload: ids never repeat.
UploadIdOf(n) == "u" \o ToString(n)

\* S3.createMultipartUpload
createMultipartUpload(bucket, key, request) ==
    LET uploadId == UploadIdOf(uuid + 1)
    IN  /\ uuid < MaxUploads
        /\ uuid' = uuid + 1
        /\ multipart_uploads' = multipart_uploads
                \cup {UploadRow(uploadId, bucket, key, DEFAULT_CONTENT_TYPE)}
        /\ s3resp' = [Response("CreateMultipartUpload", 200) EXCEPT
                        !.uploadId = uploadId]
        /\ UNCHANGED <<objects, multipart_parts>>

\* The rows uploadPart inserts for (uploadId, partNumber).
PartRows(uploadId, partNumber, data) ==
    {PartRow(uploadId, partNumber, 0, Len(data), MD5(data), FirstChunk(data))}
        \cup {PartRow(uploadId, partNumber, c[1], 0, "", c[2]) : c \in RestChunks(data)}

\* S3.uploadPart
uploadPart(bucket, key, uploadId, partNumber, request) ==
    /\ multipart_parts' =
            {r \in multipart_parts :
                ~(r.upload_id = uploadId /\ r.part_number = partNumber)}
                \cup PartRows(uploadId, partNumber, request.body)
    /\ s3resp' = [Response("UploadPart", 200) EXCEPT !.etag = MD5(request.body)]
    /\ UNCHANGED <<objects, multipart_uploads, uuid>>

\* A variant of OrderByPartNumber that returns the parts in descending order.
RECURSIVE OrderByPartNumberDesc(_)
OrderByPartNumberDesc(rows) ==
    IF rows = {} THEN <<>>
    ELSE LET r == CHOOSE x \in rows : \A y \in rows : x.part_number >= y.part_number
         IN <<r>> \o OrderByPartNumberDesc(rows \ {r})

\* ORDER BY part_number over the chunk-0 rows of an upload.
RECURSIVE OrderByPartNumber(_)
OrderByPartNumber(rows) ==
    IF rows = {} THEN <<>>
    ELSE LET r == CHOOSE x \in rows : \A y \in rows : x.part_number <= y.part_number
         IN <<r>> \o OrderByPartNumber(rows \ {r})

\* The nested loops of completeMultipartUpload: the chunk rows of every part,
\* parts by part_number, chunks by chunk_index.
RECURSIVE PartChunks(_, _, _)
PartChunks(partsTable, uploadId, parts) ==
    IF Len(parts) = 0 THEN <<>>
    ELSE OrderByChunkIndex({r \in partsTable :
                /\ r.upload_id = uploadId
                /\ r.part_number = parts[1].part_number})
            \o PartChunks(partsTable, uploadId, Tail(parts))

RECURSIVE TotalSize(_)
TotalSize(parts) ==
    IF Len(parts) = 0 THEN 0 ELSE parts[1].size + TotalSize(Tail(parts))

\* The etag of a completed upload, `${crypto.randomUUID()}-${parts.length}`: the
\* fresh UUID is named after the upload, which completes at most once.
CompleteETag(uploadId, nparts) == "mp:" \o uploadId \o "-" \o ToString(nparts)

\* CompleteRows without the re-indexing: every chunk keeps the index it had
\* in its part.
CompleteRowsKeepIndex(bucket, key, chunks, totalSize, etag, contentType) ==
    {IF i = 1
     THEN ObjectRow(bucket, key, 0, totalSize, etag, contentType, chunks[i].data)
     ELSE ObjectRow(bucket, key, chunks[i].chunk_index, 0, "", "", chunks[i].data)
        : i \in 1..Len(chunks)}

\* The rows completeMultipartUpload inserts: chunk 0 carries the metadata.
CompleteRows(bucket, key, chunks, totalSize, etag, contentType) ==
    {IF i = 1
     THEN ObjectRow(bucket, key, 0, totalSize, etag, contentType, chunks[i].data)
     ELSE ObjectRow(bucket, key, i - 1, 0, "", "", chunks[i].data)
        : i \in 1..Len(chunks)}

\* completeMultipartUpload with the DELETE of the old object moved before the
\* check of the parts.
completeMultipartUploadDeleteFirst(bucket, key, uploadId, request) ==
    LET uploads == {u \in multipart_uploads : u.upload_id = uploadId}
        parts == OrderByPartNumber({r \in multipart_parts :
                        r.upload_id = uploadId /\ r.chunk_index = 0})
        contentType == (CHOOSE u \in uploads : TRUE).content_type
        etag == CompleteETag(uploadId, Len(parts))
    IN  IF uploads = {}
        THEN /\ s3resp' = errorResponse("CompleteMultipartUpload", "NoSuchUpload", 404)
             /\ UNCHANGED <<objects, multipart_uploads, multipart_parts, uuid>>
        ELSE IF Len(parts) = 0
        THEN /\ s3resp' = errorResponse("CompleteMultipartUpload", "InvalidPart", 400)
             /\ objects' = DeleteObjectRows(objects, bucket, key)
             /\ UNCHANGED <<multipart_uploads, multipart_parts, uuid>>
        ELSE /\ objects' = DeleteObjectRows(objects, bucket, key)
                    \cup CompleteRows(bucket, key,
                            PartChunks(multipart_parts, uploadId, parts),
                            TotalSize(parts), etag, contentType)
             /\ multipart_parts' = {r \in multipart_parts : r.upload_id # uploadId}
             /\ multipart_uploads' = {u \in multipart_uploads : u.upload_id # uploadId}
             /\ s3resp' = [Response("CompleteMultipartUpload", 200) EXCEPT
                            !.etag = etag]
             /\ UNCHANGED uuid

\* S3.completeMultipartUpload
completeMultipartUpload(bucket, key, uploadId, request) ==
    LET uploads == {u \in multipart_uploads : u.upload_id = uploadId}
        parts == OrderByPartNumber({r \in multipart_parts :
                        r.upload_id = uploadId /\ r.chunk_index = 0})
        contentType == (CHOOSE u \in uploads : TRUE).content_type
        etag == CompleteETag(uploadId, Len(parts))
    IN  IF uploads = {}
        THEN /\ s3resp' = errorResponse("CompleteMultipartUpload", "NoSuchUpload", 404)
             /\ UNCHANGED <<objects, multipart_uploads, multipart_parts, uuid>>
        ELSE IF Len(parts) = 0
        THEN /\ s3resp' = errorResponse("CompleteMultipartUpload", "InvalidPart", 400)
             /\ UNCHANGED <<objects, multipart_uploads, multipart_parts, uuid>>
        ELSE /\ objects' = DeleteObjectRows(objects, bucket, key)
                    \cup CompleteRows(bucket, key,
                            PartChunks(multipart_parts, uploadId, parts),
                            TotalSize(parts), etag, contentType)
             /\ multipart_parts' = {r \in multipart_parts : r.upload_id # uploadId}
             /\ multipart_uploads' = {u \in multipart_uploads : u.upload_id # uploadId}
             /\ s3resp' = [Response("CompleteMultipartUpload", 200) EXCEPT
                            !.etag = etag]
             /\ UNCHANGED uuid

\* A variant of abortMultipartUpload that forgets the part rows.
abortMultipartUploadKeepParts(uploadId) ==
    /\ multipart_uploads' = {u \in multipart_uploads : u.upload_id # uploadId}
    /\ s3resp' = Response("AbortMultipartUpload", 204)
    /\ UNCHANGED <<objects, multipart_parts, uuid>>

\* S3.abortMultipartUpload
abortMultipartUpload(uploadId) ==
    /\ multipart_parts' = {r \in multipart_parts : r.upload_id # uploadId}
    /\ multipart_uploads' = {u \in multipart_uploads : u.upload_id # uploadId}
    /\ s3resp' = Response("AbortMultipartUpload", 204)
    /\ UNCHANGED <<objects, uuid>>

\* The bucket and the key S3.fetch reads from the URL path.
PathParts(pathname) == NonEmptyParts(Split(pathname, "/"))
BucketOf(pathname) == PathParts(pathname)[1]
KeyOf(pathname) == Join(Tail(PathParts(pathname)), "/")

\* A string is truthy in JavaScript when it is present and not empty.
Truthy(v) == v # NoParam /\ v # ""

\* The branches of S3.fetch that only read: the response to `request` when the
\* table objects holds `objs`.
readResponse(objs, request) ==
    LET method == request.method
        pathParts == PathParts(request.pathname)
        bucket == pathParts[1]
        key == Join(Tail(pathParts), "/")
    IN  IF Len(pathParts) = 0 THEN errorResponse("fetch", "NoSuchBucket", 404)
        ELSE IF method = "HEAD" /\ ~Truthy(key) THEN headBucket(bucket)
        ELSE IF method = "GET" /\ ~Truthy(key)
             THEN listObjectsV2In(objs, bucket, request)
        ELSE getObjectIn(objs, bucket, key, method = "HEAD")

\* S3.fetch: the routing of one request to its handler.
fetch(request) ==
    LET method == request.method
        pathParts == PathParts(request.pathname)
        bucket == pathParts[1]
        key == Join(Tail(pathParts), "/")
        uploadId == request.uploadId
    IN  /\ s3req' = request
        /\ UNCHANGED exceptS3
        /\ IF Len(pathParts) = 0 \/ (method \in {"GET", "HEAD"})
           THEN /\ s3resp' = readResponse(objects, request)
                /\ UNCHANGED <<objects, multipart_uploads, multipart_parts, uuid>>
           ELSE IF Truthy(key) /\ method = "POST" /\ request.uploads
                THEN createMultipartUpload(bucket, key, request)
           ELSE IF Truthy(key) /\ method = "PUT" /\ Truthy(uploadId)
                    /\ request.partNumber # NoParam
                THEN uploadPart(bucket, key, uploadId,
                                parseInt(request.partNumber), request)
           ELSE IF Truthy(key) /\ method = "POST" /\ Truthy(uploadId)
                THEN completeMultipartUpload(bucket, key, uploadId, request)
           ELSE IF Truthy(key) /\ method = "DELETE" /\ Truthy(uploadId)
                THEN abortMultipartUpload(uploadId)
           ELSE IF method = "PUT" /\ Truthy(key) THEN putObject(bucket, key, request)
           ELSE IF method = "DELETE" /\ Truthy(key) THEN deleteObject(bucket, key)
           ELSE /\ s3resp' = errorResponse("fetch", "NotImplemented", 501)
                /\ UNCHANGED <<objects, multipart_uploads, multipart_parts, uuid>>

----------------------------------------------------------------------------
(* The clients of the blob store: the requests the AWS SDK sends for each   *)
(* command (the test handler forwards request.path unchanged).              *)

\* encodeURIComponent of one character of a key: unreserved characters stay.
EncodeChar(c) ==
    CASE c = " " -> "%20" [] c = "!" -> "%21" [] c = "%" -> "%25"
      [] c = "&" -> "%26" [] OTHER -> c

\* The key as it appears in the URL path: each character percent-encoded,
\* the slashes kept.
RECURSIVE EncodeKey(_)
EncodeKey(key) ==
    IF Len(key) = 0 THEN "" ELSE EncodeChar(CharAt(key, 1)) \o EncodeKey(Tail(key))

ObjectPath(bucket, key) == "/" \o bucket \o "/" \o EncodeKey(key)

PutObjectCommand(bucket, key, body) == Request("PUT", ObjectPath(bucket, key), body)
GetObjectCommand(bucket, key) == Request("GET", ObjectPath(bucket, key), "")
HeadObjectCommand(bucket, key) == Request("HEAD", ObjectPath(bucket, key), "")
DeleteObjectCommand(bucket, key) == Request("DELETE", ObjectPath(bucket, key), "")

ListObjectsV2Command(bucket, prefix, maxKeys, continuationToken) ==
    [Request("GET", "/" \o bucket, "") EXCEPT
        !.prefix = prefix, !.maxKeys = maxKeys,
        !.continuationToken = continuationToken]

CreateMultipartUploadCommand(bucket, key) ==
    [Request("POST", ObjectPath(bucket, key), "") EXCEPT !.uploads = TRUE]

UploadPartCommand(bucket, key, uploadId, partNumber, body) ==
    [Request("PUT", ObjectPath(bucket, key), body) EXCEPT
        !.uploadId = uploadId, !.partNumber = ToString(partNumber)]

CompleteMultipartUploadCommand(bucket, key, uploadId) ==
    [Request("POST", ObjectPath(bucket, key), "") EXCEPT !.uploadId = uploadId]

AbortMultipartUploadCommand(bucket, key, uploadId) ==
    [Request("DELETE", ObjectPath(bucket, key), "") EXCEPT !.uploadId = uploadId]

\* What the client believes it stored (never consulted by the store).
NoObject == "<no object>"

SentWithout(uploadId, partNumber) ==
    {p \in sent : ~(p.uploadId = uploadId /\ p.partNumber = partNumber)}

\* The payloads sent to an upload, joined in ascending part-number order.
RECURSIVE ConcatSent(_)
ConcatSent(ps) ==
    IF ps = {} THEN ""
    ELSE LET p == CHOOSE x \in ps : \A y \in ps : x.partNumber <= y.partNumber
         IN p.body \o ConcatSent(ps \ {p})

SentTo(uploadId) == {p \in sent : p.uploadId = uploadId}

PutObject(bucket, key, body) ==
    /\ fetch(PutObjectCommand(bucket, key, body))
    /\ s3cmd' = <<bucket, key>>
    /\ UNCHANGED inflight
    /\ shadow' = IF s3resp'.status = 200
                 THEN [shadow EXCEPT ![<<bucket, key>>] = body] ELSE shadow
    /\ UNCHANGED sent

GetObject(bucket, key) ==
    /\ fetch(GetObjectCommand(bucket, key))
    /\ s3cmd' = <<bucket, key>>
    /\ UNCHANGED inflight
    /\ UNCHANGED <<sent, shadow>>

HeadObject(bucket, key) ==
    /\ fetch(HeadObjectCommand(bucket, key))
    /\ s3cmd' = <<bucket, key>>
    /\ UNCHANGED inflight
    /\ UNCHANGED <<sent, shadow>>

DeleteObject(bucket, key) ==
    /\ fetch(DeleteObjectCommand(bucket, key))
    /\ s3cmd' = <<bucket, key>>
    /\ UNCHANGED inflight
    /\ shadow' = IF s3resp'.status = 204
                 THEN [shadow EXCEPT ![<<bucket, key>>] = NoObject] ELSE shadow
    /\ UNCHANGED sent

ListObjectsV2(bucket, prefix, maxKeys, continuationToken) ==
    /\ fetch(ListObjectsV2Command(bucket, prefix, maxKeys, continuationToken))
    /\ s3cmd' = <<bucket, "">>
    /\ UNCHANGED inflight
    /\ UNCHANGED <<sent, shadow>>

CreateMultipartUpload(bucket, key) ==
    /\ fetch(CreateMultipartUploadCommand(bucket, key))
    /\ s3cmd' = <<bucket, key>>
    /\ UNCHANGED inflight
    /\ UNCHANGED <<sent, shadow>>

UploadPart(bucket, key, uploadId, partNumber, body) ==
    /\ fetch(UploadPartCommand(bucket, key, uploadId, partNumber, body))
    /\ s3cmd' = <<bucket, key>>
    /\ UNCHANGED inflight
    /\ sent' = IF s3resp'.status = 200
               THEN SentWithout(uploadId, partNumber) \cup
                    {[uploadId |-> uploadId, partNumber |-> partNumber, body |-> body]}
               ELSE sent
    /\ UNCHANGED shadow

CompleteMultipartUpload(bucket, key, uploadId) ==
    /\ fetch(CompleteMultipartUploadCommand(bucket, key, uploadId))
    /\ s3cmd' = <<bucket, key>>
    /\ UNCHANGED inflight
    /\ sent' = IF s3resp'.status = 200 THEN sent \ SentTo(uploadId) ELSE sent
    /\ shadow' = IF s3resp'.status = 200
                 THEN [shadow EXCEPT ![<<bucket, key>>] = ConcatSent(SentTo(uploadId))]
                 ELSE shadow

AbortMultipartUpload(bucket, key, uploadId) ==
    /\ fetch(AbortMultipartUploadCommand(bucket, key, uploadId))
    /\ s3cmd' = <<bucket, key>>
    /\ UNCHANGED inflight
    /\ sent' = IF s3resp'.status = 204 THEN sent \ SentTo(uploadId) ELSE sent
    /\ UNCHANGED shadow

\* putObject as the event loop runs it: the call is suspended at
\* `await request.arrayBuffer()` and at `await crypto.subtle.digest(...)`,
\* where other requests run; it has read and written nothing before the
\* second await, and everything after it runs without interruption.
MaxInFlight == 2        \* putObject calls suspended at one time

BeginPutObject(bucket, key, body) ==
    /\ Cardinality(inflight) < MaxInFlight
    /\ inflight' = inflight \cup
            {[request |-> PutObjectCommand(bucket, key, body), bucket |-> bucket,
              key |-> key, at |-> "arrayBuffer"]}
    /\ UNCHANGED <<objects, multipart_uploads, multipart_parts, uuid, s3req,
                   s3resp, s3cmd, sent, shadow>>
    /\ UNCHANGED exceptS3

ResumePutObject(e) ==
    \/ /\ e.at = "arrayBuffer"
       /\ inflight' = (inflight \ {e}) \cup {[e EXCEPT !.at = "digest"]}
       /\ UNCHANGED <<objects, multipart_uploads, multipart_parts, uuid, s3req,
                      s3resp, s3cmd, sent, shadow>>
       /\ UNCHANGED exceptS3
    \/ /\ e.at = "digest"
       /\ fetch(e.request)
       /\ inflight' = inflight \ {e}
       /\ s3cmd' = <<e.bucket, e.key>>
       /\ shadow' = IF s3resp'.status = 200
                    THEN [shadow EXCEPT ![<<e.bucket, e.key>>] = e.request.body]
                    ELSE shadow
       /\ UNCHANGED sent

----------------------------------------------------------------------------
(* Inputs *)

\* The deterministic byte pattern of the chunking test (i % 256).
Pattern == "abcdefghij"

\* PutObject bodies: empty, smaller than, equal to and larger than a chunk.
Payloads == {SubSeq(Pattern, 1, n) : n \in 0..MaxPayloadLen}

\* Part bodies: smaller than a chunk, and larger than a chunk.
PartPayloads == {"p", "qrs"}

PartNumbers == {1, 2}

\* The upload ids a client can know: the ones minted so far.
MintedUploadIds == {UploadIdOf(n) : n \in 1..uuid}

AllBuckets == {"b", "c"}
AllKeys == {"k", "foo", "foo/", "a b&c!", "foo/a", "foo/b", "bar/c", "Foo/a"}

S3Init ==
    /\ objects = {}
    /\ multipart_uploads = {}
    /\ multipart_parts = {}
    /\ uuid = 0
    /\ s3req = Request("", "", "")
    /\ s3resp = Response("", 0)
    /\ s3cmd = <<"", "">>
    /\ sent = {}
    /\ shadow = [bk \in AllBuckets \X AllKeys |-> NoObject]
    /\ inflight = {}

----------------------------------------------------------------------------
(* Path functions of Go: path/filepath and strings *)

\* strings.TrimPrefix
TrimPrefix(s, prefix) ==
    IF StartsWith(s, prefix) THEN SubSeq(s, Len(prefix) + 1, Len(s)) ELSE s

\* strings.LastIndex for a one-character separator (0: not found)
LastIndex(s, c) ==
    LET I == {i \in 1..Len(s) : CharAt(s, i) = c}
    IN  IF I = {} THEN 0 ELSE CHOOSE i \in I : \A j \in I : j <= i

\* The loop of filepath.Clean over the elements of the path: "" and "." are
\* skipped, ".." removes the element before it, or is dropped at the root of
\* a rooted path, or is kept in a path that is not rooted.
RECURSIVE CleanParts(_, _, _)
CleanParts(parts, rooted, out) ==
    IF Len(parts) = 0 THEN out
    ELSE LET c == parts[1]
             rest == Tail(parts)
         IN  IF c = "" \/ c = "." THEN CleanParts(rest, rooted, out)
             ELSE IF c = ".."
                  THEN IF Len(out) > 0 /\ out[Len(out)] # ".."
                       THEN CleanParts(rest, rooted, SubSeq(out, 1, Len(out) - 1))
                       ELSE IF rooted THEN CleanParts(rest, rooted, out)
                       ELSE CleanParts(rest, rooted, Append(out, ".."))
             ELSE CleanParts(rest, rooted, Append(out, c))

\* filepath.Clean
Clean(path) ==
    LET Written(out) == IF out = "" THEN "." ELSE out
        Elements(rooted) ==
            Written((IF rooted THEN "/" ELSE "")
                        \o Join(CleanParts(Split(path, "/"), rooted, <<>>), "/"))
    IN  IF path = "" THEN "." ELSE Elements(CharAt(path, 1) = "/")

\* filepath.Join of two elements: empty elements are ignored, the result is
\* cleaned.
FilepathJoin(a, b) ==
    IF a = "" /\ b = "" THEN ""
    ELSE Clean(IF b = "" THEN a ELSE IF a = "" THEN b ELSE a \o "/" \o b)

\* filepath.Dir: all but the last element of the path, cleaned
Dir(path) == Clean(SubSeq(path, 1, LastIndex(path, "/")))

\* filepath.Base of a clean path
Base(path) ==
    IF path = "/" THEN "/" ELSE SubSeq(path, LastIndex(path, "/") + 1, Len(path))

\* cleanPath of net/http: the canonical form of a request path; a trailing
\* slash is kept.
cleanPath(p) ==
    LET Cleaned(q, np) ==
            IF CharAt(q, Len(q)) = "/" /\ np # "/" THEN np \o "/" ELSE np
        Rooted(q) == Cleaned(q, Clean(q))
    IN  IF p = "" THEN "/"
        ELSE Rooted(IF CharAt(p, 1) # "/" THEN "/" \o p ELSE p)

----------------------------------------------------------------------------
(* Path confinement of the file API: container_src/main.go *)

SandboxRoot == "/home/cutie"

\* validateAndResolvePath: (absPath, nil) or ("", error)
validateAndResolvePath(relPath) ==
    LET Checked(absPath) ==
            IF ~StartsWith(absPath, SandboxRoot \o "/") /\ absPath # SandboxRoot
            THEN [err |-> TRUE, path |-> ""]
            ELSE [err |-> FALSE, path |-> absPath]
        Joined(cleaned) == Checked(FilepathJoin(SandboxRoot, cleaned))
    IN  Joined(TrimPrefix(Clean(relPath), "/"))

\* toRelativePath
toRelativePath(absPath) ==
    LET Trimmed(rel) ==
            IF rel = absPath THEN TrimPrefix(absPath, SandboxRoot) ELSE rel
    IN  TrimPrefix(Trimmed(TrimPrefix(absPath, SandboxRoot \o "/")), "/")

----------------------------------------------------------------------------
(* The filesystem under the file API: package os of Go on Linux *)

DirNode == [isDir |-> TRUE, content |-> ""]
FileNode(content) == [isDir |-> FALSE, content |-> content]

\* The directories above a clean absolute path.
ProperAncestors(p) ==
    {IF i = 1 THEN "/" ELSE SubSeq(p, 1, i - 1) :
        i \in {j \in 1..Len(p) : CharAt(p, j) = "/"}} \ {p}

\* q lies below directory p.
Under(q, p) == IF p = "/" THEN q # "/" ELSE StartsWith(q, p \o "/")

\* The error of looking a path up: ENOTDIR when an element above it is a
\* regular file, ENOENT when it does not exist, "" when it is found.
LookupErr(files, p) ==
    IF \E a \in ProperAncestors(p) : a \in DOMAIN files /\ ~files[a].isDir
    THEN "ENOTDIR"
    ELSE IF p \notin DOMAIN files THEN "ENOENT"
    ELSE ""

\* os.IsNotExist
IsNotExist(err) == err = "ENOENT"

\* A filesystem call and the path it was given.
Call(name, path) == [call |-> name, path |-> path]

\* os.Stat
Stat(files, p) ==
    LET Info(e) ==
            [err |-> e,
             isDir |-> e = "" /\ files[p].isDir,
             size |-> IF e = "" THEN Len(files[p].content) ELSE 0]
    IN  Info(LookupErr(files, p))

\* os.ReadFile
ReadFile(files, p) ==
    LET Read(e) ==
            IF e # "" THEN [err |-> e, content |-> ""]
            ELSE IF files[p].isDir THEN [err |-> "EISDIR", content |-> ""]
            ELSE [err |-> "", content |-> files[p].content]
    IN  Read(LookupErr(files, p))

\* os.MkdirAll: the path and the missing directories above it are created;
\* it fails, creating nothing, when one of them is a regular file.
MkdirAll(files, p) ==
    LET Make(chain) ==
            IF \E a \in chain : a \in DOMAIN files /\ ~files[a].isDir
            THEN [err |-> "ENOTDIR", fs |-> files]
            ELSE [err |-> "",
                  fs |-> [q \in DOMAIN files \cup chain |->
                            IF q \in DOMAIN files THEN files[q] ELSE DirNode]]
    IN  Make(ProperAncestors(p) \cup {p})

\* os.WriteFile: open(O_WRONLY|O_CREATE|O_TRUNC), write, close
WriteFile(files, p, content) ==
    LET Open(parent, e) ==
            IF e # "" THEN [err |-> e, fs |-> files]
            ELSE IF ~files[parent].isDir THEN [err |-> "ENOTDIR", fs |-> files]
            ELSE IF p \in DOMAIN files /\ files[p].isDir
                 THEN [err |-> "EISDIR", fs |-> files]
            ELSE [err |-> "",
                  fs |-> [q \in DOMAIN files \cup {p} |->
                            IF q = p THEN FileNode(content) ELSE files[q]]]
        In(parent) == Open(parent, LookupErr(files, parent))
    IN  In(Dir(p))

\* os.Remove: unlink, or rmdir of an empty directory
Remove(files, p) ==
    LET Unlink(e) ==
            IF e # "" THEN [err |-> e, fs |-> files]
            ELSE IF files[p].isDir /\ \E q \in DOMAIN files : Under(q, p)
                 THEN [err |-> "ENOTEMPTY", fs |-> files]
            ELSE [err |-> "", fs |-> [q \in DOMAIN files \ {p} |-> files[q]]]
    IN  Unlink(LookupErr(files, p))

\* The tree at from, moved to to.
Moved(files, from, to) ==
    LET NewName(q) == to \o SubSeq(q, Len(from) + 1, Len(q))
        Tree(gone, new) ==
            [q \in ((DOMAIN files \ gone) \ {to}) \cup new |->
                IF q \in new THEN files[CHOOSE o \in gone : NewName(o) = q]
                ELSE files[q]]
        Take(gone) == Tree(gone, {NewName(q) : q \in gone})
    IN  Take({q \in DOMAIN files : q = from \/ Under(q, from)})

\* os.Rename: rename(2)
Rename(files, from, to) ==
    LET Link(e, parent, pe) ==
            IF e # "" THEN [err |-> e, fs |-> files]
            ELSE IF pe # "" THEN [err |-> pe, fs |-> files]
            ELSE IF ~files[parent].isDir
                 THEN [err |-> "ENOTDIR", fs |-> files]
            ELSE IF from = to THEN [err |-> "", fs |-> files]
            ELSE IF Under(to, from) THEN [err |-> "EINVAL", fs |-> files]
            ELSE IF to \in DOMAIN files /\ files[to].isDir /\ ~files[from].isDir
                 THEN [err |-> "EISDIR", fs |-> files]
            ELSE IF to \in DOMAIN files /\ ~files[to].isDir /\ files[from].isDir
                 THEN [err |-> "ENOTDIR", fs |-> files]
            ELSE IF to \in DOMAIN files /\ \E q \in DOMAIN files : Under(q, to)
                 THEN [err |-> "ENOTEMPTY", fs |-> files]
            ELSE [err |-> "", fs |-> Moved(files, from, to)]
        Into(parent) ==
            Link(LookupErr(files, from), parent, LookupErr(files, parent))
    IN  Into(Dir(to))

\* The FileInfo records filepath.Walk hands to the callback of
\* handleAPIFilesList: everything below absPath, absPath itself skipped.
\* The size of a directory depends on the filesystem and is left 0.
Walk(files, absPath) ==
    {[path |-> toRelativePath(q), name |-> Base(q),
      isDir |-> files[q].isDir, size |-> Len(files[q].content)] :
        q \in {r \in DOMAIN files : Under(r, absPath)}}

----------------------------------------------------------------------------
(* The file API: container_src/main.go *)

\* What a handler leaves behind: the response, the filesystem, and the
\* filesystem calls it made.
Handled(op, status, body, files, newfs, calls) ==
    [op |-> op, status |-> status, body |-> body, files |-> files,
     fs |-> newfs, calls |-> calls]

\* handleAPIFilesList
handleAPIFilesList(files, queryPath) ==
    LET op == "List"
        Listed(absPath, info, c1) ==
            IF info.err # ""
            THEN IF IsNotExist(info.err)
                 THEN Handled(op, 404, "Directory not found", {}, files, c1)
                 ELSE Handled(op, 500, info.err, {}, files, c1)
            ELSE IF ~info.isDir
                 THEN Handled(op, 400, "Path is not a directory", {}, files, c1)
            ELSE Handled(op, 200, "", Walk(files, absPath), files,
                         c1 \o <<Call("Walk", absPath)>>)
        Resolved(v) ==
            IF v.err THEN Handled(op, 400, "invalid path", {}, files, <<>>)
            ELSE Listed(v.path, Stat(files, v.path), <<Call("Stat", v.path)>>)
    IN  Resolved(validateAndResolvePath(queryPath))

\* handleAPIFilesGet
handleAPIFilesGet(files, filePath) ==
    LET op == "Get"
        Read(read, c2) ==
            IF read.err # "" THEN Handled(op, 500, read.err, {}, files, c2)
            ELSE Handled(op, 200, read.content, {}, files, c2)
        Found(absPath, info, c1) ==
            IF info.err # ""
            THEN IF IsNotExist(info.err)
                 THEN Handled(op, 404, "File not found", {}, files, c1)
                 ELSE Handled(op, 500, info.err, {}, files, c1)
            ELSE IF info.isDir
                 THEN Handled(op, 400, "Path is a directory", {}, files, c1)
            ELSE Read(ReadFile(files, absPath),
                      c1 \o <<Call("ReadFile", absPath)>>)
        Resolved(v) ==
            IF v.err THEN Handled(op, 400, "invalid path", {}, files, <<>>)
            ELSE Found(v.path, Stat(files, v.path), <<Call("Stat", v.path)>>)
    IN  Resolved(validateAndResolvePath(filePath))

\* handleAPIFilesPut
handleAPIFilesPut(files, filePath, content) ==
    LET op == "Put"
        Written(written, c2) ==
            IF written.err # ""
            THEN Handled(op, 500, "Failed to write file", {}, written.fs, c2)
            ELSE Handled(op, 200, "", {}, written.fs, c2)
        Made(absPath, made, c1) ==
            IF made.err # ""
            THEN Handled(op, 500, "Failed to create parent directories",
                         {}, made.fs, c1)
            ELSE Written(WriteFile(made.fs, absPath, content),
                         c1 \o <<Call("WriteFile", absPath)>>)
        Parent(absPath, parentDir) ==
            Made(absPath, MkdirAll(files, parentDir),
                 <<Call("MkdirAll", parentDir)>>)
        Resolved(v) ==
            IF v.err THEN Handled(op, 400, "invalid path", {}, files, <<>>)
            ELSE Parent(v.path, Dir(v.path))
    IN  Resolved(validateAndResolvePath(filePath))

\* handleAPIFilesDelete
handleAPIFilesDelete(files, filePath) ==
    LET op == "Delete"
        Removed(removed, c1) ==
            IF removed.err # ""
            THEN IF IsNotExist(removed.err)
                 THEN Handled(op, 204, "", {}, removed.fs, c1)
                 ELSE Handled(op, 500, "Failed to delete file", {},
                              removed.fs, c1)
            ELSE Handled(op, 204, "", {}, removed.fs, c1)
        Resolved(v) ==
            IF v.err THEN Handled(op, 400, "invalid path", {}, files, <<>>)
            ELSE Removed(Remove(files, v.path), <<Call("Remove", v.path)>>)
    IN  Resolved(validateAndResolvePath(filePath))

\* handleAPIFilesMove; from = NoParam stands for a body that is not JSON
handleAPIFilesMove(files, from, to) ==
    LET op == "Move"
        Renamed(renamed, c3) ==
            IF renamed.err # ""
            THEN Handled(op, 500, "Failed to move file", {}, renamed.fs, c3)
            ELSE Handled(op, 200, "", {}, renamed.fs, c3)
        Made(absFrom, absTo, made, c2) ==
            IF made.err # ""
            THEN Handled(op, 500, "Failed to create destination directory",
                         {}, made.fs, c2)
            ELSE Renamed(Rename(made.fs, absFrom, absTo),
                         c2 \o <<Call("Rename", absFrom), Call("Rename", absTo)>>)
        Parent(absFrom, absTo, toParent, c1) ==
            Made(absFrom, absTo, MkdirAll(files, toParent),
                 c1 \o <<Call("MkdirAll", toParent)>>)
        Found(absFrom, absTo, info, c1) ==
            IF info.err # ""
            THEN IF IsNotExist(info.err)
                 THEN Handled(op, 404, "Source file not found", {}, files, c1)
                 ELSE Handled(op, 500, info.err, {}, files, c1)
            ELSE Parent(absFrom, absTo, Dir(absTo), c1)
        Resolved(f, t) ==
            IF f.err
            THEN Handled(op, 400, "Invalid source path", {}, files, <<>>)
            ELSE IF t.err
                 THEN Handled(op, 400, "Invalid destination path", {}, files, <<>>)
            ELSE Found(f.path, t.path, Stat(files, f.path),
                       <<Call("Stat", f.path)>>)
    IN  IF from = NoParam
        THEN Handled(op, 400, "Invalid JSON request", {}, files, <<>>)
        ELSE Resolved(validateAndResolvePath(from), validateAndResolvePath(to))

\* A request to the container: method, URL path, ?path= of the query, and
\* the body (for a move the from and to of its JSON).
FileRequest(method, urlPath, queryPath, from, to, body) ==
    [method |-> method, body |-> body, urlPath |-> urlPath,
     queryPath |-> queryPath, from |-> from, to |-> to]

\* The ServeMux of main(): a path that is not in canonical form is answered
\* with a redirect; "/api/files/move" and "/api/files" match exactly,
\* "/api/files/" matches everything below it, the rest goes to handleHTTP.
Route(files, r) ==
    IF cleanPath(r.urlPath) # r.urlPath
    THEN Handled("Redirect", 301, cleanPath(r.urlPath), {}, files, <<>>)
    ELSE IF r.urlPath = "/api/files/move"
         THEN handleAPIFilesMove(files, r.from, r.to)
    ELSE IF r.urlPath = "/api/files"
         THEN IF r.method = "GET"
              THEN handleAPIFilesList(files, r.queryPath)
              ELSE Handled("List", 405, "Method not allowed", {}, files, <<>>)
    ELSE IF StartsWith(r.urlPath, "/api/files/")
         THEN LET filePath == TrimPrefix(r.urlPath, "/api/files/")
              IN  IF r.method = "GET" THEN handleAPIFilesGet(files, filePath)
                  ELSE IF r.method = "PUT"
                       THEN handleAPIFilesPut(files, filePath, r.body)
                  ELSE IF r.method = "DELETE"
                       THEN handleAPIFilesDelete(files, filePath)
                  ELSE Handled("", 405, "Method not allowed", {}, files, <<>>)
    ELSE Handled("handleHTTP", 200, "", {}, files, <<>>)

\* writeLog, with LOGS_ENDPOINT and LOGS_TOKEN set: one POST to the write
\* endpoint of the log store; its outcome is only printed.
writeLog(sentLines, logMessage) == Append(sentLines, logMessage)

\* logRequest: the line "GET /index.html -> 200 OK (2.45ms, 12 B)", here
\* without the status text and the duration, a reading of the clock.
logRequest(sentLines, method, path, status, size) ==
    writeLog(sentLines, method \o " " \o path \o " -> " \o ToString(status)
                        \o " (" \o ToString(size) \o " B)")

MaxDepth == 2           \* deepest path below the sandbox root, in elements

\* The number of elements of a clean absolute path below the sandbox root.
Depth(p) == Len(Split(p, "/")) - Len(Split(SandboxRoot, "/"))

\* One request served by the container.
ServeHTTP(r) ==
    \E h \in {Route(fs, r)} :
        /\ \A q \in DOMAIN h.fs : Depth(q) <= MaxDepth
        /\ fileReq' = r
        /\ fileResp' = [op |-> h.op, status |-> h.status, body |-> h.body,
                        files |-> h.files]
        /\ fs' = h.fs
        /\ fsCalls' = h.calls
        /\ posted' = IF h.op = "handleHTTP"
                     THEN logRequest(posted, r.method, r.urlPath, h.status,
                                     Len(h.body))
                     ELSE posted

----------------------------------------------------------------------------
(* The clients of the file API and its inputs *)

FilesList(queryPath) ==
    /\ ServeHTTP(FileRequest("GET", "/api/files", queryPath, NoParam, NoParam, ""))
    /\ UNCHANGED exceptFiles

FilesGet(filePath) ==
    /\ ServeHTTP(FileRequest("GET", "/api/files/" \o filePath, "", NoParam,
                             NoParam, ""))
    /\ UNCHANGED exceptFiles

FilesPut(filePath, content) ==
    /\ ServeHTTP(FileRequest("PUT", "/api/files/" \o filePath, "", NoParam,
                             NoParam, content))
    /\ UNCHANGED exceptFiles

FilesDelete(filePath) ==
    /\ ServeHTTP(FileRequest("DELETE", "/api/files/" \o filePath, "", NoParam,
                             NoParam, ""))
    /\ UNCHANGED exceptFiles

FilesMove(from, to) ==
    /\ ServeHTTP(FileRequest("POST", "/api/files/move", "", from, to, ""))
    /\ UNCHANGED exceptFiles

\* Paths put into the URL, into ?path= and into the body of a move.
FilePaths == {"", "a", "b", "a/b", "a/", "a/../b"}
QueryPaths == {"", "a", "a/b", "../a"}
MovePaths == {"", "a", "b", "a/b", "../b", "/../b"}
FileContents == {"x", "yy"}

\* ensureConfigExists: main() leaves a default config.json in the home
\* directory.
configPath == SandboxRoot \o "/config.json"
defaultConfig == "{\n  \"static\": \".\"\n}"

FilesInit ==
    /\ fs = [p \in {"/", "/home", SandboxRoot, configPath} |->
                IF p = configPath THEN FileNode(defaultConfig) ELSE DirNode]
    /\ fileReq = FileRequest("", "", "", NoParam, NoParam, "")
    /\ fileResp = [op |-> "", status |-> 0, body |-> "", files |-> {}]
    /\ fsCalls = <<>>
    /\ posted = writeLog(writeLog(<<>>, "Container started successfully"),
                         "Server listening on port 8283")

----------------------------------------------------------------------------
(* validateAndResolvePath applied to one path *)

MaxPathLen == 4         \* longest generated path, in characters

PathAlphabet == {"a", ".", "/"}

RECURSIVE PathsUpTo(_)
PathsUpTo(n) ==
    IF n = 0 THEN {""}
    ELSE PathsUpTo(n - 1) \cup {s \o c : s \in PathsUpTo(n - 1), c \in PathAlphabet}

NamedPaths == {"../../etc/passwd", "/../secret", "a/b/../c",
               "../cutie", "../cutie/a", "../cutiepie", "/home/cutie/a"}

PathInputs == PathsUpTo(MaxPathLen) \cup NamedPaths

PathInit ==
    /\ relativePath = ""
    /\ resolved = <<>>

ValidateAndResolve ==
    /\ resolved = <<>>
    /\ resolved' = <<validateAndResolvePath(relativePath)>>
    /\ UNCHANGED <<relativePath, exceptPath>>

----------------------------------------------------------------------------
(* The log store: class Logs *)

\* 1_000_000_000 and 1_000_000 in the program; scaled so that a timestamp in
\* nanoseconds fits the integers of the model checker. A second is still a
\* whole number of milliseconds, a millisecond a whole number of nanoseconds.
NANOS_PER_SEC == 4
NANOS_PER_MILLI == 2
MILLIS_PER_SEC == NANOS_PER_SEC \div NANOS_PER_MILLI

\* 7-day lookback window, in seconds
WINDOW_SEC == 604800

\* `if (!ops.limit) ops.limit = 100`
DEFAULT_LIMIT == 100

MaxLogs == 4            \* rows the table logs can hold

\* BigInt(string) of a string of decimal digits
BigInt(s) == parseInt(s)

LogRow(id, log, ts_sec, ts_nsec) ==
    [rowid |-> id, log |-> log, ts_sec |-> ts_sec, ts_nsec |-> ts_nsec]

\* The loop of writeLogs: one INSERT per entry
RECURSIVE InsertLogs(_, _, _)
InsertLogs(table, id, batch) ==
    IF Len(batch) = 0 THEN table
    ELSE LET tsNanos == BigInt(batch[1].ts)
             tsSec == tsNanos \div NANOS_PER_SEC
             tsNsec == tsNanos % NANOS_PER_SEC
         IN  InsertLogs(table \cup {LogRow(id + 1, batch[1].log, tsSec, tsNsec)},
                        id + 1, Tail(batch))

LogsRequest(op, before, search, limit) ==
    [op |-> op, before |-> before, search |-> search, limit |-> limit]

\* Logs.writeLogs
writeLogs(batch) ==
    /\ Cardinality(logs) + Len(batch) <= MaxLogs
    /\ logs' = InsertLogs(logs, rowid, batch)
    /\ rowid' = rowid + Len(batch)
    /\ logReq' = LogsRequest("writeLogs", NoParam, NoParam, 0)
    /\ logResp' = <<>>
    /\ UNCHANGED <<now, exceptLogs>>

\* ASCII lower-casing of a string
RECURSIVE Lower(_)
Lower(s) == IF Len(s) = 0 THEN "" ELSE LowerChar(CharAt(s, 1)) \o Lower(Tail(s))

\* sub occurs in s, letter case ignored
ContainsFold(s, sub) ==
    LET ls == Lower(s)
        lsub == Lower(sub)
    IN  \E i \in 1..(Len(s) - Len(sub) + 1) : SubSeq(ls, i, i + Len(sub) - 1) = lsub

\* A variant of Match that finds whole words only.
MatchWord(log, search) ==
    Len(search) >= 3
        /\ \E i \in 1..Len(NonEmptyParts(Split(log, " "))) :
                Lower(NonEmptyParts(Split(log, " "))[i]) = Lower(search)

\* `logs_fts MATCH ?` for a query of one bare word: the trigram tokenizer
\* finds the rows that contain it as a substring, letter case ignored; a
\* query shorter than one trigram finds nothing.
Match(log, search) == Len(search) >= 3 /\ ContainsFold(log, search)

\* highlight(logs_fts, 0, '<mark>', '</mark>') for such a query: log from
\* position i on, every occurrence of the word wrapped in the two tags.
RECURSIVE HighlightFrom(_, _, _, _)
HighlightFrom(log, llog, lsearch, i) ==
    LET n == Len(lsearch)
    IN  IF i + n - 1 > Len(log) THEN SubSeq(log, i, Len(log))
        ELSE IF SubSeq(llog, i, i + n - 1) = lsearch
             THEN "<mark>" \o SubSeq(log, i, i + n - 1) \o "</mark>"
                  \o HighlightFrom(log, llog, lsearch, i + n)
        ELSE CharAt(log, i) \o HighlightFrom(log, llog, lsearch, i + 1)

highlight(log, search) == HighlightFrom(log, Lower(log), Lower(search), 1)

\* (ts_sec, ts_nsec) of row r is before (sec, nsec)
TsBefore(r, sec, nsec) ==
    r.ts_sec < sec \/ (r.ts_sec = sec /\ r.ts_nsec < nsec)

\* ORDER BY ts_sec DESC, ts_nsec DESC; rows of one timestamp in rowid order
RECURSIVE OrderByTsDesc(_)
OrderByTsDesc(rows) ==
    IF rows = {} THEN <<>>
    ELSE LET first == CHOOSE r \in rows : \A q \in rows \ {r} :
                        \/ TsBefore(q, r.ts_sec, r.ts_nsec)
                        \/ (q.ts_sec = r.ts_sec /\ q.ts_nsec = r.ts_nsec
                            /\ r.rowid < q.rowid)
         IN  <<first>> \o OrderByTsDesc(rows \ {first})

\* The rows Logs.getLogs returns when the table holds `table` and Date.now()
\* is nowMs.
getLogsIn(table, nowMs, ops) ==
    LET limit == IF ops.limit = 0 THEN DEFAULT_LIMIT ELSE ops.limit
        beforeTs == IF ops.before # NoParam THEN BigInt(ops.before)
                    ELSE nowMs * NANOS_PER_MILLI
        beforeSec == beforeTs \div NANOS_PER_SEC
        beforeNsec == beforeTs % NANOS_PER_SEC
        minTsSec == beforeSec - WINDOW_SEC
        inWindow == {r \in table : /\ r.ts_sec >= minTsSec
                                   /\ TsBefore(r, beforeSec, beforeNsec)}
        found == IF Truthy(ops.search)
                 THEN {r \in inWindow : Match(r.log, ops.search)}
                 ELSE inWindow
        Result(r) == [rowid |-> r.rowid, log |-> r.log, ts_sec |-> r.ts_sec,
                      ts_nsec |-> r.ts_nsec,
                      highlighted_log |-> IF Truthy(ops.search)
                                          THEN highlight(r.log, ops.search)
                                          ELSE r.log]
        ordered == Limit(OrderByTsDesc(found), limit)
    IN  [i \in 1..Len(ordered) |-> Result(ordered[i])]

\* Logs.getLogs
getLogs(ops) ==
    /\ logReq' = ops
    /\ logResp' = getLogsIn(logs, now, ops)
    /\ UNCHANGED <<logs, rowid, now>>

\* GET /list: before, search and limit of the query string
ListLogs(before, search, limit) ==
    /\ getLogs(LogsRequest("getLogs", before, search, limit))
    /\ UNCHANGED exceptLogs

\* The time of the test run, 20 days after the epoch, in milliseconds, and
\* the moments of the clock the model looks at.
DAY_SEC == 24 * 60 * 60
TestStart == 20 * DAY_SEC * MILLIS_PER_SEC
Clock == {TestStart, TestStart + 1}

\* A millisecond passes.
Tick ==
    /\ now + 1 \in Clock
    /\ now' = now + 1
    /\ UNCHANGED <<logs, rowid, logReq, logResp, exceptLogs>>

\* genTimestamp of the tests: daysAgo days before the start, in nanoseconds
genTimestamp(daysAgo) ==
    ToString((TestStart - daysAgo * DAY_SEC * MILLIS_PER_SEC) * NANOS_PER_MILLI)

\* The timestamp of the container's writeLog (time.Now().UnixNano()) one
\* nanosecond after the second that lies 7 days before the start.
EdgeTimestamp ==
    ToString((TestStart \div MILLIS_PER_SEC - WINDOW_SEC) * NANOS_PER_SEC + 1)

\* The entries written one at a time, and the batch of the time-window test.
LogEntries ==
    {[ts |-> genTimestamp(3), log |-> "Recent log 3 days ago"],
     [ts |-> genTimestamp(8), log |-> "Ancient log 8 days ago"],
     [ts |-> EdgeTimestamp, log |-> "Error: timeout"]}

WindowTestBatch ==
    <<[ts |-> genTimestamp(3), log |-> "Recent log 3 days ago"],
      [ts |-> genTimestamp(6), log |-> "Older log 6 days ago"],
      [ts |-> genTimestamp(8), log |-> "Ancient log 8 days ago"],
      [ts |-> genTimestamp(10), log |-> "Very old log 10 days ago"]>>

LogBatches == {<<e>> : e \in LogEntries} \cup {WindowTestBatch}

\* The arguments of getLogs: no `before`, one between two milliseconds of the
\* start, and the time of the 3-day entry.
LogBefores == {NoParam, ToString(TestStart * NANOS_PER_MILLI + 3), genTimestamp(3)}
LogSearches == {NoParam, "LOG", "time"}
LogLimits == {0, 2}

\* The entries of the substring-search test, written at the start, and the
\* search strings: two inside a word, one shorter than a trigram.
SearchTestBatch ==
    <<[ts |-> genTimestamp(0), log |-> "Error: x"],
      [ts |-> genTimestamp(0), log |-> "terror"],
      [ts |-> genTimestamp(0), log |-> "fine"]>>

SearchEntries == {SearchTestBatch[i] : i \in 1..Len(SearchTestBatch)}
SearchBatches == {<<e>> : e \in SearchEntries} \cup {SearchTestBatch}
SearchStrings == {"rror", "ERR", "ro"}
SearchLimits == {0, 1}

LogsInit ==
    /\ logs = {}
    /\ rowid = 0
    /\ now = TestStart
    /\ logReq = LogsRequest("", NoParam, NoParam, 0)
    /\ logResp = <<>>

----------------------------------------------------------------------------
(* The registry of computers: worker/computers.ts *)

\* 100 in the program; scaled so that a few computers use up the candidates.
maxAttempts == 3

\* \w of a regular expression
WordChars ==
    LET w == "0123456789ABCDEFGHIJKLMNOPQRSTUVWXYZ_abcdefghijklmnopqrstuvwxyz"
    IN  {CharAt(w, i) : i \in 1..Len(w)}

\* String.prototype.trim, the only whitespace of the model being the space
RECURSIVE TrimStart(_)
TrimStart(s) ==
    IF Len(s) > 0 /\ CharAt(s, 1) = " " THEN TrimStart(Tail(s)) ELSE s

RECURSIVE TrimEnd(_)
TrimEnd(s) ==
    IF Len(s) > 0 /\ CharAt(s, Len(s)) = " "
    THEN TrimEnd(SubSeq(s, 1, Len(s) - 1)) ELSE s

Trim(s) == TrimEnd(TrimStart(s))

\* .replace(/[^\w\s-]/g, "")
RECURSIVE RemoveSpecial(_)
RemoveSpecial(s) ==
    IF Len(s) = 0 THEN ""
    ELSE (IF CharAt(s, 1) \in WordChars \cup {" ", "-"} THEN CharAt(s, 1) ELSE "")
            \o RemoveSpecial(Tail(s))

\* .replace(/c+/g, "-"): every run of the character c becomes one hyphen
RECURSIVE RunsToHyphen(_, _)
RunsToHyphen(s, c) ==
    IF Len(s) = 0 THEN ""
    ELSE IF CharAt(s, 1) # c THEN CharAt(s, 1) \o RunsToHyphen(Tail(s), c)
    ELSE IF Len(s) > 1 /\ CharAt(s, 2) = c THEN RunsToHyphen(Tail(s), c)
    ELSE "-" \o RunsToHyphen(Tail(s), c)

\* .replace(/^-+|-+$/g, "")
RECURSIVE StripHyphens(_)
StripHyphens(s) ==
    IF Len(s) > 0 /\ CharAt(s, 1) = "-" THEN StripHyphens(Tail(s))
    ELSE IF Len(s) > 0 /\ CharAt(s, Len(s)) = "-"
         THEN StripHyphens(SubSeq(s, 1, Len(s) - 1))
    ELSE s

\* generateSlug
generateSlug(name) ==
    StripHyphens(RunsToHyphen(RunsToHyphen(RemoveSpecial(Trim(Lower(name))),
                                           " "), "-"))

\* crypto.randomUUID(): the n-th secret minted
SecretOf(n) == "secret-" \o ToString(n)

\* A row of table computers; the column secrets, a JSON array of strings in
\* the program, is the sequence of these strings.
Computer(id, name, slug, created_at, secrets) ==
    [id |-> id, name |-> name, slug |-> slug, created_at |-> created_at,
     secrets |-> secrets]

\* The id of the next row: INTEGER PRIMARY KEY
NextId(table) ==
    IF table = {} THEN 1
    ELSE 1 + CHOOSE i \in {r.id : r \in table} : \A r \in table : r.id <= i

\* A variant of FirstFreeSlug whose loop runs once more.
RECURSIVE FirstFreeSlugOnceMore(_, _, _)
FirstFreeSlugOnceMore(table, baseSlug, attempts) ==
    IF attempts > maxAttempts THEN ""
    ELSE IF \E r \in table :
                r.slug = (IF attempts = 0 THEN baseSlug
                          ELSE baseSlug \o "-" \o ToString(attempts))
         THEN FirstFreeSlugOnceMore(table, baseSlug, attempts + 1)
    ELSE IF attempts = 0 THEN baseSlug ELSE baseSlug \o "-" \o ToString(attempts)

\* The loop of createComputer: the first slug of baseSlug, baseSlug-1, ...
\* whose INSERT does not fail on the UNIQUE constraint; "" after maxAttempts.
RECURSIVE FirstFreeSlug(_, _, _)
FirstFreeSlug(table, baseSlug, attempts) ==
    IF attempts >= maxAttempts THEN ""
    ELSE LET Try(slug) ==
                IF \E r \in table : r.slug = slug
                THEN FirstFreeSlug(table, baseSlug, attempts + 1)
                ELSE slug
         IN  Try(IF attempts = 0 THEN baseSlug
                 ELSE baseSlug \o "-" \o ToString(attempts))

RegistryResult(success, computer, error) ==
    [success |-> success, computer |-> computer, error |-> error]

\* Computers.createComputer
createComputer(displayName) ==
    /\ regReq' = <<"createComputer", displayName>>
    /\ \E name \in {Trim(displayName)} :
       \E slug \in {FirstFreeSlug(computers, generateSlug(name), 0)} :
        IF name = ""
        THEN /\ regResp' = RegistryResult(FALSE, <<>>, "Computer name is required")
             /\ UNCHANGED <<computers, minted>>
        ELSE IF generateSlug(name) = ""
        THEN /\ regResp' = RegistryResult(FALSE, <<>>,
                    "Computer name must contain at least one alphanumeric character")
             /\ UNCHANGED <<computers, minted>>
        ELSE IF slug = ""
        THEN /\ regResp' = RegistryResult(FALSE, <<>>,
                    "Could not generate unique slug after multiple attempts")
             /\ UNCHANGED <<computers, minted>>
        ELSE \E row \in {Computer(NextId(computers), name, slug, now,
                                  <<SecretOf(minted + 1)>>)} :
                /\ computers' = computers \cup {row}
                /\ minted' = minted + 1
                /\ regResp' = RegistryResult(TRUE, row, "")
    /\ UNCHANGED exceptRegistry

\* A variant of getComputerIn that inserts the row with the new secret
\* and keeps the old one.
getComputerInKeepOld(table, made, slug) ==
    IF \A r \in table : r.slug # slug
    THEN [computer |-> <<>>, table |-> table, minted |-> made]
    ELSE IF (CHOOSE r \in table : r.slug = slug).secrets # <<>>
         THEN [computer |-> CHOOSE r \in table : r.slug = slug, table |-> table,
               minted |-> made]
    ELSE [computer |-> [(CHOOSE r \in table : r.slug = slug) EXCEPT
                            !.secrets = <<SecretOf(made + 1)>>],
          table |-> table \cup {[(CHOOSE r \in table : r.slug = slug) EXCEPT
                                    !.secrets = <<SecretOf(made + 1)>>]},
          minted |-> made + 1]

\* What Computers.getComputer returns and leaves behind: the row of the slug,
\* its secrets filled in when they were empty, or <<>> for null.
getComputerIn(table, made, slug) ==
    LET Found(rows) ==
            IF rows = {} THEN [computer |-> <<>>, table |-> table, minted |-> made]
            ELSE LET Row(computer) ==
                        IF computer.secrets = <<>>
                        THEN LET Updated(row) ==
                                    [computer |-> row,
                                     table |-> (table \ {computer}) \cup {row},
                                     minted |-> made + 1]
                             IN  Updated([computer EXCEPT
                                            !.secrets = <<SecretOf(made + 1)>>])
                        ELSE [computer |-> computer, table |-> table,
                              minted |-> made]
                 IN  Row(CHOOSE r \in rows : TRUE)
    IN  Found({r \in table : r.slug = slug})

\* Computers.getComputer
getComputer(slug) ==
    /\ regReq' = <<"getComputer", slug>>
    /\ \E got \in {getComputerIn(computers, minted, slug)} :
        /\ computers' = got.table
        /\ minted' = got.minted
        /\ regResp' = got.computer
    /\ UNCHANGED exceptRegistry

\* Computers.listComputers; the order of rows created in the same
\* millisecond is not fixed, the rows are given as a set.
listComputers ==
    /\ regReq' = <<"listComputers">>
    /\ regResp' = {[id |-> r.id, name |-> r.name, slug |-> r.slug,
                    created_at |-> r.created_at] : r \in computers}
    /\ UNCHANGED <<computers, minted>>
    /\ UNCHANGED exceptRegistry

\* Display names: two that give the same slug, one that gives the slug of
\* their first collision, and names without a usable character.
DisplayNames == {"My Computer", "  my   computer! ", "my-computer-1", "", "  ", "!!"}
Slugs == {"my-computer", "my-computer-1", "my-computer-2", "nobody"}

\* A row of a schema generation without secrets (DEFAULT '[]').
LegacyComputer == Computer(1, "Old", "old", 0, <<>>)

RegistryInit ==
    /\ computers = {}
    /\ minted = 0
    /\ regReq = <<>>
    /\ regResp = <<>>

----------------------------------------------------------------------------
(* Authentication of the log store: Logs.fetch *)

\* Map.prototype.get / set of secretsCache, a set of entries
CacheHas(cache, name) == \E e \in cache : e.name = name
CacheGet(cache, name) == (CHOOSE e \in cache : e.name = name).secrets
CacheSet(cache, name, secrets) ==
    {e \in cache : e.name # name} \cup {[name |-> name, secrets |-> secrets]}

\* What the authentication of Logs.fetch leaves behind: whether the request
\* goes on, the response if it does not, the cache, the table computers and
\* the number of secrets minted after the call of getComputer, the number of
\* calls of getComputer and of verifyToken.
Authenticated(ok, status, error, cache, table, made, queries, verifications) ==
    [ok |-> ok, status |-> status, error |-> error, cache |-> cache,
     table |-> table, minted |-> made, queries |-> queries,
     verifications |-> verifications]

\* A variant of Authenticate that trusts the cached secrets only.
AuthenticateCacheOnly(cache, table, made, authorization) ==
    IF authorization = NoAuthorization \/ authorization.scheme # "Bearer"
    THEN Authenticated(FALSE, 401, "Unauthorized", cache, table, made, 0, 0)
    ELSE IF CacheHas(cache, authorization.token.sub)
    THEN IF verifyToken(authorization.token,
                        CacheGet(cache, authorization.token.sub))
         THEN Authenticated(TRUE, 200, "", cache, table, made, 0, 1)
         ELSE Authenticated(FALSE, 401, "Invalid token", cache, table, made, 0, 1)
    ELSE IF getComputerIn(table, made, authorization.token.sub).computer = <<>>
    THEN Authenticated(FALSE, 401, "Computer not found", cache, table, made, 1, 0)
    ELSE Authenticated(
            verifyToken(authorization.token,
                getComputerIn(table, made, authorization.token.sub).computer.secrets),
            401, "Invalid token",
            CacheSet(cache, authorization.token.sub,
                getComputerIn(table, made, authorization.token.sub).computer.secrets),
            getComputerIn(table, made, authorization.token.sub).table,
            getComputerIn(table, made, authorization.token.sub).minted, 1, 1)

\* The authentication of Logs.fetch (BackLink.tsx:69-127). An exception that
\* nothing catches (JSON.parse or atob of the payload) ends the request with
\* status 500.
Authenticate(cache, table, made, authorization) ==
    LET Denied(error, queries, verifications) ==
            Authenticated(FALSE, 401, error, cache, table, made, queries,
                          verifications)
        Verified(token, got, cached, tried) ==
            IF verifyToken(token, got.computer.secrets)
            THEN Authenticated(TRUE, 200, "", cached, got.table, got.minted,
                               1, tried + 1)
            ELSE Authenticated(FALSE, 401, "Invalid token", cached, got.table,
                               got.minted, 1, tried + 1)
        Fetched(token, got, tried) ==
            IF got.computer = <<>> THEN Denied("Computer not found", 1, tried)
            ELSE IF Len(got.computer.secrets) = 0
                 THEN Authenticated(FALSE, 401, "No secrets configured", cache,
                                    got.table, got.minted, 1, tried)
            ELSE Verified(token, got,
                          CacheSet(cache, token.sub, got.computer.secrets), tried)
        Decoded(token) ==
            IF token.sub = "" THEN Denied("Invalid token claims", 0, 0)
            ELSE IF CacheHas(cache, token.sub)
                 THEN IF verifyToken(token, CacheGet(cache, token.sub))
                      THEN Authenticated(TRUE, 200, "", cache, table, made, 0, 1)
                      ELSE Fetched(token, getComputerIn(table, made, token.sub), 1)
            ELSE Fetched(token, getComputerIn(table, made, token.sub), 0)
    IN  IF authorization = NoAuthorization \/ authorization.scheme # "Bearer"
        THEN Denied("Unauthorized", 0, 0)
        ELSE IF authorization.token.parts # 3
             THEN Denied("Invalid token format", 0, 0)
        ELSE IF ~authorization.token.decodable
             THEN Authenticated(FALSE, 500, "exception", cache, table, made, 0, 0)
        ELSE Decoded(authorization.token)

\* A request to Logs.fetch: the Authorization header, the method, the URL
\* path, the JSON body of /write and the query of /list.
HttpRequest(authorization, method, pathname, body, before, search, limit) ==
    [authorization |-> authorization, method |-> method, pathname |-> pathname,
     body |-> body, before |-> before, search |-> search, limit |-> limit]

\* The response of Logs.fetch and what it did for the request: the method of
\* class Logs it called, and the calls of getComputer and verifyToken.
HttpResponse(status, error, called, a) ==
    [status |-> status, error |-> error, called |-> called,
     queries |-> a.queries, verifications |-> a.verifications]

\* Logs.fetch
LogsFetch(request) ==
    /\ httpReq' = request
    /\ \E a \in {Authenticate(secretsCache, computers, minted,
                              request.authorization)} :
        /\ secretsCache' = a.cache
        /\ computers' = a.table
        /\ minted' = a.minted
        /\ IF ~a.ok
           THEN /\ httpResp' = HttpResponse(a.status, a.error, "", a)
                /\ UNCHANGED <<logs, rowid, logReq, logResp>>
           ELSE IF request.pathname = "/write" /\ request.method = "POST"
           THEN /\ Cardinality(logs) + Len(request.body) <= MaxLogs
                /\ logs' = InsertLogs(logs, rowid, request.body)
                /\ rowid' = rowid + Len(request.body)
                /\ logReq' = LogsRequest("writeLogs", NoParam, NoParam, 0)
                /\ logResp' = <<>>
                /\ httpResp' = HttpResponse(200, "", "writeLogs", a)
           ELSE IF request.pathname = "/list" /\ request.method = "GET"
           THEN /\ logReq' = LogsRequest("getLogs",
                                IF Truthy(request.before) THEN request.before
                                ELSE NoParam,
                                IF Truthy(request.search) THEN request.search
                                ELSE NoParam,
                                request.limit)
                /\ logResp' = getLogsIn(logs, now, logReq')
                /\ httpResp' = HttpResponse(200, "", "getLogs", a)
                /\ UNCHANGED <<logs, rowid>>
           ELSE /\ httpResp' = HttpResponse(404, "Not found", "", a)
                /\ UNCHANGED <<logs, rowid, logReq, logResp>>
    /\ UNCHANGED <<now, regReq, regResp, s3vars, filevars, pathvars, ptyvars,
                   termvars, confvars>>

\* Worker.handleLogsRequest: the computer named in /logs/<name>/..., whose
\* Logs object gets the request, and the path it gets it with.
handleLogsRequest(pathname) ==
    LET Parts(pathParts) ==
            IF Len(pathParts) < 2
            THEN [status |-> 400, computerName |-> "", newPath |-> ""]
            ELSE [status |-> 0, computerName |-> pathParts[2],
                  newPath |-> "/" \o Join(SubSeq(pathParts, 3, Len(pathParts)), "/")]
    IN  Parts(NonEmptyParts(Split(pathname, "/")))

\* The computer whose Logs object the model holds.
LogsComputer == "alpha"

\* An HTTP request to /logs/<name>/<rest> that the worker hands to the Logs
\* object of the model.
FetchLogs(authorization, method, name, rest, body) ==
    /\ handleLogsRequest("/logs/" \o name \o rest).computerName = LogsComputer
    /\ LogsFetch(HttpRequest(authorization, method,
                             handleLogsRequest("/logs/" \o name \o rest).newPath,
                             body, NoParam, NoParam, 0))

MaxSecrets == 3         \* secrets minted in one run

\* The registry replaces the secrets of a computer by a fresh one.
RotateSecret(slug) ==
    /\ minted < MaxSecrets
    /\ \E r \in computers :
        /\ r.slug = slug
        /\ computers' = (computers \ {r})
                            \cup {[r EXCEPT !.secrets = <<SecretOf(minted + 1)>>]}
    /\ minted' = minted + 1
    /\ UNCHANGED <<regReq, regResp, exceptRegistry>>

\* Two computers with a secret each and one of the schema generation
\* without secrets.
AuthComputers ==
    {Computer(1, "Old", "old", 0, <<>>),
     Computer(2, "Alpha", "alpha", 1, <<SecretOf(1)>>),
     Computer(3, "Beta", "beta", 2, <<SecretOf(2)>>)}

\* The Authorization headers of the requests: none, one that is not a bearer
\* token, tokens of the two computers signed with each secret, an expired
\* token, a token for a computer that does not exist, one for the computer
\* without secrets, and tokens that are not well-formed.
AuthTokens ==
    {JWT(sub, SecretOf(n), FALSE) : sub \in {"alpha", "beta"}, n \in 1..MaxSecrets}
    \cup {JWT("alpha", SecretOf(1), TRUE),
          JWT("ghost", SecretOf(1), FALSE), JWT("old", SecretOf(1), FALSE),
          JWT("", SecretOf(1), FALSE),
          [JWT("alpha", SecretOf(1), FALSE) EXCEPT !.parts = 2],
          [JWT("alpha", SecretOf(1), FALSE) EXCEPT !.decodable = FALSE]}

Authorizations ==
    {NoAuthorization, Authorization("Basic", JWT("alpha", SecretOf(1), FALSE))}
    \cup {Authorization("Bearer", t) : t \in AuthTokens}

LogsRoutes == {<<"POST", "/write">>, <<"GET", "/list">>, <<"GET", "/">>}

AuthBatch == <<[ts |-> genTimestamp(1), log |-> "started"],
               [ts |-> genTimestamp(1), log |-> "listening"]>>

AuthInit ==
    /\ secretsCache = {}
    /\ httpReq = HttpRequest(NoAuthorization, "", "", <<>>, NoParam, NoParam, 0)
    /\ httpResp = [status |-> 0, error |-> "", called |-> "", queries |-> 0,
                   verifications |-> 0]

----------------------------------------------------------------------------
(* The terminal session of the container: handleWebSocket and ptySession,   *)
(* from the moment the shell runs and the two goroutines are started        *)

MaxOutput == 2          \* chunks of shell output waiting in the pty

MaxFrames == 2          \* frames written to the pty in one run

\* The text of a frame is a sequence of lexical tokens: punctuation, a JSON
\* string, a JSON number (its digits), white space, or other bytes.
Punct(c) == [t |-> "punct", v |-> c]
Str(s) == [t |-> "str", v |-> s]
Num(digits) == [t |-> "num", v |-> digits]
Space == [t |-> "ws", v |-> " "]
Raw(bytes) == [t |-> "raw", v |-> bytes]

\* `{"type":<type>,"cols":<cols>,"rows":<rows>}`
ResizeText(type, cols, rows) ==
    <<Punct("{"), Str("type"), Punct(":"), type, Punct(","),
      Str("cols"), Punct(":"), cols, Punct(","),
      Str("rows"), Punct(":"), rows, Punct("}")>>

\* A WebSocket frame as ws.ReadMessage returns it
Frame(msgType, data) == [msgType |-> msgType, data |-> data]

Keystrokes == Frame("text", <<Raw("ls")>>)
Resize == Frame("text", ResizeText(Str("resize"), Num("100"), Num("30")))
SpacedResize ==
    Frame("text", <<Space>> \o ResizeText(Str("resize"), Num("100"), Num("30")))
OtherJSON == Frame("text", ResizeText(Str("input"), Num("100"), Num("30")))
WideResize == Frame("text", ResizeText(Str("resize"), Num("70000"), Num("30")))
Unclosed == Frame("text", <<Punct("{"), Raw("x")>>)
EmptyText == Frame("text", <<>>)
Binary == Frame("binary", <<Raw("ls")>>)

\* The frames a client sends in an ordinary session, and every shape of frame
SessionFrames == {Keystrokes, Resize}
Frames == {Keystrokes, Resize, SpacedResize, OtherJSON, WideResize, Unclosed,
           EmptyText, Binary}

\* type resizeMessage struct { Type string; Cols uint16; Rows uint16 }, with
\* err for the error json.Unmarshal returns
resizeMessage == [err |-> FALSE, Type |-> "", Cols |-> 0, Rows |-> 0]

SyntaxError == [resizeMessage EXCEPT !.err = TRUE]

\* One member of the object stored into the struct: the field whose name
\* matches the key without regard to case; a value of the wrong JSON type,
\* or a number that does not fit uint16, is an error; other keys are skipped.
SetField(msg, key, value) ==
    IF Lower(key) = "type"
    THEN IF value.t = "str" THEN [msg EXCEPT !.Type = value.v]
         ELSE [msg EXCEPT !.err = TRUE]
    ELSE IF Lower(key) \in {"cols", "rows"}
    THEN IF value.t = "num" /\ parseInt(value.v) < 65536
         THEN IF Lower(key) = "cols"
              THEN [msg EXCEPT !.Cols = parseInt(value.v)]
              ELSE [msg EXCEPT !.Rows = parseInt(value.v)]
         ELSE [msg EXCEPT !.err = TRUE]
    ELSE msg

\* The members of a JSON object from token i on: key, colon, value, then a
\* comma and more members, or the closing brace as the last token.
RECURSIVE Members(_, _, _)
Members(tokens, i, msg) ==
    IF i + 3 > Len(tokens) THEN SyntaxError
    ELSE IF \/ tokens[i].t # "str"
            \/ tokens[i + 1] # Punct(":")
            \/ tokens[i + 2].t \notin {"str", "num"}
    THEN SyntaxError
    ELSE IF tokens[i + 3] = Punct("}")
    THEN IF i + 3 = Len(tokens)
         THEN SetField(msg, tokens[i].v, tokens[i + 2])
         ELSE SyntaxError
    ELSE IF tokens[i + 3] = Punct(",")
    THEN Members(tokens, i + 4, SetField(msg, tokens[i].v, tokens[i + 2]))
    ELSE SyntaxError

IsSpace(token) == token.t = "ws"
NotSpace(token) == ~IsSpace(token)

\* json.Unmarshal(data, &resize): white space around the tokens is skipped,
\* the text must be one JSON object
Unmarshal(data) ==
    LET Parse(tokens) ==
            IF Len(tokens) < 2 \/ tokens[1] # Punct("{") THEN SyntaxError
            ELSE IF tokens = <<Punct("{"), Punct("}")>> THEN resizeMessage
            ELSE Members(tokens, 2, resizeMessage)
    IN  Parse(SelectSeq(data, NotSpace))

PtyInit ==
    /\ hpc = "read" /\ ppc = "tick" /\ rpc = "read"
    /\ mu = "" /\ closed = FALSE /\ teardowns = 0
    /\ ptmxOpen = TRUE /\ shell = "running" /\ ws = "open"
    /\ inbox = <<>> /\ outbuf = 0 /\ ticking = TRUE
    /\ toShell = <<>> /\ winsize = <<24, 80>>

\* The ping goroutine: on every tick, under the mutex, stop if the session
\* is closed, else send a ping (ppc = "write" while ws.WriteControl runs) and
\* stop if that fails.
pingLoop ==
    /\ \/ /\ ppc = "tick" /\ ticking
          /\ ppc' = "lock" /\ UNCHANGED mu
       \/ /\ ppc = "lock" /\ mu = ""
          /\ ppc' = "locked" /\ mu' = "ping"
       \/ /\ ppc = "locked" /\ closed
          /\ ppc' = "done" /\ mu' = ""
       \/ /\ ppc = "locked" /\ ~closed
          /\ ppc' = "write" /\ UNCHANGED mu
       \/ /\ ppc = "write"
          /\ mu' = ""
          /\ ppc' = IF ws # "open" THEN "done" ELSE "tick"
    /\ UNCHANGED <<hpc, rpc, closed, teardowns, ptmxOpen, shell, ws, inbox,
                   outbuf, ticking>>
    /\ UNCHANGED exceptPty

\* The relay pty -> WebSocket without the mutex around the write.
ptyToWebSocketUnlocked ==
    /\ \/ /\ rpc = "read" /\ ptmxOpen /\ outbuf > 0
          /\ outbuf' = outbuf - 1 /\ rpc' = "lock" /\ UNCHANGED mu
       \/ /\ rpc = "read" /\ (~ptmxOpen \/ (shell # "running" /\ outbuf = 0))
          /\ rpc' = "done" /\ UNCHANGED <<mu, outbuf>>
       \/ /\ rpc = "lock" /\ UNCHANGED mu
          /\ rpc' = "locked" /\ UNCHANGED outbuf
       \/ /\ rpc = "locked" /\ closed
          /\ rpc' = "read" /\ UNCHANGED mu /\ UNCHANGED outbuf
       \/ /\ rpc = "locked" /\ ~closed
          /\ rpc' = "write" /\ UNCHANGED <<mu, outbuf>>
       \/ /\ rpc = "write"
          /\ UNCHANGED mu
          /\ rpc' = IF ws # "open" THEN "done" ELSE "read"
          /\ UNCHANGED outbuf
    /\ UNCHANGED <<hpc, ppc, closed, teardowns, ptmxOpen, shell, ws, inbox,
                   ticking>>
    /\ UNCHANGED exceptPty

\* The goroutine pty -> WebSocket: ptmx.Read returns a chunk, or fails once
\* the descriptor is closed or the shell is gone and its output is drained;
\* the chunk is written to the socket under the mutex unless the session is
\* closed (rpc = "write" while ws.WriteMessage runs); a failed write ends
\* the goroutine.
ptyToWebSocket ==
    /\ \/ /\ rpc = "read" /\ ptmxOpen /\ outbuf > 0
          /\ outbuf' = outbuf - 1 /\ rpc' = "lock" /\ UNCHANGED mu
       \/ /\ rpc = "read" /\ (~ptmxOpen \/ (shell # "running" /\ outbuf = 0))
          /\ rpc' = "done" /\ UNCHANGED <<mu, outbuf>>
       \/ /\ rpc = "lock" /\ mu = "" /\ mu' = "reader"
          /\ rpc' = "locked" /\ UNCHANGED outbuf
       \/ /\ rpc = "locked" /\ closed
          /\ rpc' = "read" /\ mu' = "" /\ UNCHANGED outbuf
       \/ /\ rpc = "locked" /\ ~closed
          /\ rpc' = "write" /\ UNCHANGED <<mu, outbuf>>
       \/ /\ rpc = "write"
          /\ mu' = ""
          /\ rpc' = IF ws # "open" THEN "done" ELSE "read"
          /\ UNCHANGED outbuf
    /\ UNCHANGED <<hpc, ppc, closed, teardowns, ptmxOpen, shell, ws, inbox,
                   ticking>>
    /\ UNCHANGED exceptPty

\* `len(msg) > 0 && msg[0] == '{'`, then `err == nil && resize.Type ==
\* "resize"` of the message json.Unmarshal filled
IsResizeMessage(data) ==
    /\ Len(data) > 0 /\ data[1] = Punct("{")
    /\ ~Unmarshal(data).err /\ Unmarshal(data).Type = "resize"

\* The handler's loop WebSocket -> pty: a read error leaves the loop; a frame
\* that is not text is dropped; a resize message sets the window size; any
\* other text is written to the pty, and a write error leaves the loop.
\* Writing to the pty of a shell that is gone fails or not, as the kernel
\* decides.
webSocketToPty ==
    /\ hpc = "read"
    /\ \/ /\ inbox = <<>> /\ ws = "failed"
          /\ hpc' = "wait" /\ UNCHANGED <<inbox, toShell, winsize>>
       \/ /\ inbox # <<>> /\ Head(inbox).msgType # "text"
          /\ hpc' = "read" /\ inbox' = Tail(inbox)
          /\ UNCHANGED <<toShell, winsize>>
       \/ /\ inbox # <<>> /\ Head(inbox).msgType = "text"
          /\ IsResizeMessage(Head(inbox).data)
          /\ hpc' = "read" /\ inbox' = Tail(inbox)
          /\ winsize' = <<Unmarshal(Head(inbox).data).Rows,
                          Unmarshal(Head(inbox).data).Cols>>
          /\ UNCHANGED toShell
       \/ /\ inbox # <<>> /\ Head(inbox).msgType = "text"
          /\ ~IsResizeMessage(Head(inbox).data)
          /\ inbox' = Tail(inbox)
          /\ \/ /\ hpc' = "read"
                /\ toShell' = Append(toShell, Head(inbox).data)
             \/ /\ shell # "running" /\ hpc' = "wait"
                /\ UNCHANGED toShell
          /\ UNCHANGED winsize
    /\ UNCHANGED <<ppc, rpc, mu, closed, teardowns, ptmxOpen, shell, ws,
                   outbuf, ticking>>
    /\ UNCHANGED exceptTerminal

\* cmd.Wait(): returns once the shell process has ended.
cmdWait ==
    /\ hpc = "wait" /\ shell \in {"exited", "killed"}
    /\ hpc' = "stop" /\ shell' = "reaped"
    /\ UNCHANGED <<ppc, rpc, mu, closed, teardowns, ptmxOpen, ws, inbox,
                   outbuf, ticking>>
    /\ UNCHANGED exceptPty

\* defer ticker.Stop()
tickerStop ==
    /\ hpc = "stop"
    /\ hpc' = "close" /\ ticking' = FALSE
    /\ UNCHANGED <<ppc, rpc, mu, closed, teardowns, ptmxOpen, shell, ws,
                   inbox, outbuf>>
    /\ UNCHANGED exceptPty

\* ptySession.close with an unlock that also clears the flag.
closeAndReopen ==
    /\ \/ /\ hpc = "close" /\ mu = ""
          /\ hpc' = "flag" /\ mu' = "handler"
          /\ UNCHANGED <<closed, teardowns, ptmxOpen, shell>>
       \/ /\ hpc = "flag"
          /\ hpc' = IF closed THEN "unlock" ELSE "ptmx"
          /\ closed' = TRUE
          /\ UNCHANGED <<mu, teardowns, ptmxOpen, shell>>
       \/ /\ hpc = "ptmx"
          /\ hpc' = "kill" /\ ptmxOpen' = FALSE /\ teardowns' = teardowns + 1
          /\ UNCHANGED <<mu, closed, shell>>
       \/ /\ hpc = "kill"
          /\ hpc' = "unlock"
          /\ shell' = IF shell = "running" THEN "killed" ELSE shell
          /\ UNCHANGED <<mu, closed, teardowns, ptmxOpen>>
       \/ /\ hpc = "unlock"
          /\ hpc' = "wsclose" /\ mu' = "" /\ closed' = FALSE
          /\ UNCHANGED <<teardowns, ptmxOpen, shell>>
    /\ UNCHANGED <<ppc, rpc, ws, inbox, outbuf, ticking>>
    /\ UNCHANGED exceptPty

\* defer session.close(): lock; return if closed, else set the flag, close
\* the pty, kill the process; unlock.
close ==
    /\ \/ /\ hpc = "close" /\ mu = ""
          /\ hpc' = "flag" /\ mu' = "handler"
          /\ UNCHANGED <<closed, teardowns, ptmxOpen, shell>>
       \/ /\ hpc = "flag"
          /\ hpc' = IF closed THEN "unlock" ELSE "ptmx"
          /\ closed' = TRUE
          /\ UNCHANGED <<mu, teardowns, ptmxOpen, shell>>
       \/ /\ hpc = "ptmx"
          /\ hpc' = "kill" /\ ptmxOpen' = FALSE /\ teardowns' = teardowns + 1
          /\ UNCHANGED <<mu, closed, shell>>
       \/ /\ hpc = "kill"
          /\ hpc' = "unlock"
          /\ shell' = IF shell = "running" THEN "killed" ELSE shell
          /\ UNCHANGED <<mu, closed, teardowns, ptmxOpen>>
       \/ /\ hpc = "unlock"
          /\ hpc' = "wsclose" /\ mu' = ""
          /\ UNCHANGED <<closed, teardowns, ptmxOpen, shell>>
    /\ UNCHANGED <<ppc, rpc, ws, inbox, outbuf, ticking>>
    /\ UNCHANGED exceptPty

\* defer ws.Close()
wsClose ==
    /\ hpc = "wsclose"
    /\ hpc' = "done" /\ ws' = "closed"
    /\ UNCHANGED <<ppc, rpc, mu, closed, teardowns, ptmxOpen, shell, inbox,
                   outbuf, ticking>>
    /\ UNCHANGED exceptPty

\* The environment of the session: the shell prints or ends by itself, the
\* client sends a message, or its side of the socket closes or fails.
ShellOutput ==
    /\ shell = "running" /\ outbuf < MaxOutput
    /\ outbuf' = outbuf + 1
    /\ UNCHANGED <<hpc, ppc, rpc, mu, closed, teardowns, ptmxOpen, shell, ws,
                   inbox, ticking>>
    /\ UNCHANGED exceptPty

ShellExit ==
    /\ shell = "running"
    /\ shell' = "exited"
    /\ UNCHANGED <<hpc, ppc, rpc, mu, closed, teardowns, ptmxOpen, ws, inbox,
                   outbuf, ticking>>
    /\ UNCHANGED exceptPty

ClientSend(frame) ==
    /\ ws = "open" /\ inbox = <<>> /\ Len(toShell) < MaxFrames
    /\ inbox' = <<frame>>
    /\ UNCHANGED <<hpc, ppc, rpc, mu, closed, teardowns, ptmxOpen, shell, ws,
                   outbuf, ticking>>
    /\ UNCHANGED exceptPty

ClientClose ==
    /\ ws = "open"
    /\ ws' = "failed"
    /\ UNCHANGED <<hpc, ppc, rpc, mu, closed, teardowns, ptmxOpen, shell,
                   inbox, outbuf, ticking>>
    /\ UNCHANGED exceptPty

----------------------------------------------------------------------------
(* The configuration file of the static server: loadConfig and             *)
(* sanitizeJSONC                                                           *)

MaxSegments == 2        \* lexical segments of a written config file

\* A piece of a JSONC text: its bytes, and what of them is not comment.
Segment(text, kept) == [text |-> text, kept |-> kept]

\* String literals, punctuation, line comments (the newline that ends one
\* stays) and block comments.
Segments ==
    {Segment("\"a\"", "\"a\""),
     Segment("\"\\\\\"", "\"\\\\\""),
     Segment("\"/*\"", "\"/*\""),
     Segment("\"\\\"\"", "\"\\\"\""),
     Segment(",", ","),
     Segment("// c\n", "\n"),
     Segment("// /*\n", "\n"),
     Segment("/* c */", ""),
     Segment("/** c **/", ""),
     Segment("/* a/b */", "")}

RECURSIVE TextOf(_)
TextOf(segments) ==
    IF segments = <<>> THEN ""
    ELSE Head(segments).text \o TextOf(Tail(segments))

\* The state byte of sanitizeJSONC, one flag per bit.
JsoncState(isString, isCommentLine, isCommentBlock, checkNext) ==
    [isString |-> isString, isCommentLine |-> isCommentLine,
     isCommentBlock |-> isCommentBlock, checkNext |-> checkNext]

\* The function sanitizeJSONC maps over the runes: the state after rune r,
\* and the rune written ("" for -1, the rune is skipped). checkNext is the
\* flag as it was before the rune, the flag of state being cleared first.
MapRune(state, checkNext, r) ==
    LET Written(st) ==
            [state |-> st,
             out |-> IF st.isCommentLine \/ st.isCommentBlock THEN "" ELSE r]
        Skipped(st) == [state |-> st, out |-> ""]
    IN  IF r = "\n" THEN Written([state EXCEPT !.isCommentLine = FALSE])
        ELSE IF r = "\\"
        THEN Written(IF state.isString THEN [state EXCEPT !.checkNext = TRUE]
                     ELSE state)
        ELSE IF r = "\""
        THEN Written(IF state.isString
                     THEN IF checkNext THEN state
                          ELSE [state EXCEPT !.isString = FALSE]
                     ELSE IF ~state.isCommentLine /\ ~state.isCommentBlock
                          THEN [state EXCEPT !.isString = TRUE]
                          ELSE state)
        ELSE IF r = "/"
        THEN IF state.isString THEN Written(state)
             ELSE IF state.isCommentBlock
                  THEN IF checkNext
                       THEN Skipped([state EXCEPT !.isCommentBlock = FALSE])
                       ELSE Skipped([state EXCEPT !.isCommentLine = TRUE])
             ELSE IF checkNext
                  THEN Skipped([state EXCEPT !.isCommentLine = TRUE])
                  ELSE Skipped([state EXCEPT !.checkNext = TRUE])
        ELSE IF r = "*"
        THEN IF state.isString THEN Written(state)
             ELSE IF checkNext
                  THEN Skipped([state EXCEPT !.isCommentBlock = TRUE])
             ELSE IF state.isCommentBlock
                  THEN Skipped([state EXCEPT !.checkNext = TRUE])
             ELSE Skipped(state)
        ELSE Written(state)

\* bytes.Map over data from rune i on
RECURSIVE BytesMap(_, _, _)
BytesMap(data, i, state) ==
    IF i > Len(data) THEN ""
    ELSE LET Next(m) == m.out \o BytesMap(data, i + 1, m.state)
         IN  Next(MapRune([state EXCEPT !.checkNext = FALSE], state.checkNext,
                          CharAt(data, i)))

sanitizeJSONC(data) == BytesMap(data, 1, JsoncState(FALSE, FALSE, FALSE, FALSE))

ConfigInit ==
    /\ configFile = <<Segment(defaultConfig, defaultConfig)>>
    /\ configRead = <<>>
    /\ configData = ""

\* The user writes config.json: segments one after the other, from an empty
\* file; what was loaded before is out of date.
WriteConfig(segments) ==
    /\ configFile' = segments
    /\ configRead' = <<>>
    /\ configData' = ""
    /\ UNCHANGED exceptConfig

\* loadConfig as far as the data it hands to json.Unmarshal
loadConfig ==
    /\ configRead = <<>>
    /\ configRead' = configFile
    /\ configData' = sanitizeJSONC(TextOf(configFile))
    /\ UNCHANGED configFile
    /\ UNCHANGED exceptConfig

RECURSIVE SegmentsUpTo(_)
SegmentsUpTo(n) ==
    IF n = 0 THEN {<<>>}
    ELSE SegmentsUpTo(n - 1) \cup
         {Append(d, g) : d \in SegmentsUpTo(n - 1), g \in Segments}

----------------------------------------------------------------------------
(* The state after construction *)

Init == S3Init /\ FilesInit /\ PathInit /\ LogsInit /\ RegistryInit /\ AuthInit
         /\ PtyInit /\ ConfigInit

----------------------------------------------------------------------------
(* SpecS3: one key of one bucket under every operation of the store *)

NextS3 ==
    \/ \E d \in Payloads : PutObject("b", "k", d)
    \/ GetObject("b", "k")
    \/ HeadObject("b", "k")
    \/ DeleteObject("b", "k")
    \/ ListObjectsV2("b", NoParam, NoParam, NoParam)
    \/ CreateMultipartUpload("b", "k")
    \/ \E u \in MintedUploadIds, n \in PartNumbers, d \in PartPayloads :
            UploadPart("b", "k", u, n, d)
    \/ \E u \in MintedUploadIds : CompleteMultipartUpload("b", "k", u)
    \/ \E u \in MintedUploadIds : AbortMultipartUpload("b", "k", u)

SpecS3 == Init /\ [][NextS3]_vars

----------------------------------------------------------------------------
(* SpecS3Concurrent: requests for one key that interleave at the awaits of  *)
(* putObject                                                                *)

\* The bodies of the concurrent puts: one chunk, and two chunks.
ConcurrentPayloads == {"a", "abc"}

NextS3Concurrent ==
    \/ \E d \in ConcurrentPayloads : BeginPutObject("b", "k", d)
    \/ \E e \in inflight : ResumePutObject(e)
    \/ GetObject("b", "k")
    \/ HeadObject("b", "k")
    \/ DeleteObject("b", "k")
    \/ uuid = 0 /\ CreateMultipartUpload("b", "k")
    \/ \E u \in MintedUploadIds, d \in PartPayloads :
            UploadPart("b", "k", u, 1, d)
    \/ \E u \in MintedUploadIds : CompleteMultipartUpload("b", "k", u)

SpecS3Concurrent == Init /\ [][NextS3Concurrent]_vars

----------------------------------------------------------------------------
(* SpecS3Keys: keys with a trailing slash and keys the SDK percent-encodes *)

SlashKeys == {"foo", "foo/"}
EncodedKey == "a b&c!"
KeyBodies == {"", "x", "y"}

NextS3Keys ==
    \/ \E k \in SlashKeys \cup {EncodedKey}, d \in KeyBodies : PutObject("b", k, d)
    \/ \E k \in SlashKeys \cup {EncodedKey} : GetObject("b", k)
    \/ \E k \in SlashKeys \cup {EncodedKey} : DeleteObject("b", k)
    \/ ListObjectsV2("b", NoParam, NoParam, NoParam)

SpecS3Keys == Init /\ [][NextS3Keys]_vars

----------------------------------------------------------------------------
(* SpecS3List: listing two buckets by prefix *)

ListKeys == {"foo/a", "foo/b", "bar/c", "Foo/a"}
ListPrefixes == {NoParam, "foo/", "bar/", "f_o/", "%a", "FOO/"}

NextS3List ==
    \/ \E b \in AllBuckets, k \in ListKeys : PutObject(b, k, "x")
    \/ \E b \in AllBuckets, k \in ListKeys : DeleteObject(b, k)
    \/ \E b \in AllBuckets, p \in ListPrefixes : ListObjectsV2(b, p, NoParam, NoParam)

SpecS3List == Init /\ [][NextS3List]_vars

----------------------------------------------------------------------------
(* SpecS3Pages: listing one bucket page by page *)

PageKeys == {"bar/c", "foo/a", "foo/b"}
PagePrefixes == {NoParam, "foo/"}
PageSizes == {NoParam, "0", "1", "2"}

NextS3Pages ==
    \/ \E k \in PageKeys : PutObject("b", k, "x")
    \/ \E k \in PageKeys : DeleteObject("b", k)
    \/ \E p \in PagePrefixes, n \in PageSizes, t \in PageKeys \cup {NoParam} :
            ListObjectsV2("b", p, n, t)

SpecS3Pages == Init /\ [][NextS3Pages]_vars

----------------------------------------------------------------------------
(* SpecPath: validateAndResolvePath on every short path over "a", ".", "/" *)
(* and on the paths the contract names *)

InitPath ==
    /\ S3Init /\ FilesInit /\ LogsInit /\ RegistryInit /\ AuthInit /\ PtyInit
    /\ ConfigInit
    /\ relativePath \in PathInputs
    /\ resolved = <<>>

NextPath == ValidateAndResolve

SpecPath == InitPath /\ [][NextPath]_vars

----------------------------------------------------------------------------
(* SpecFiles: the file API of one container *)

NextFiles ==
    \/ \E q \in QueryPaths : FilesList(q)
    \/ \E p \in FilePaths : FilesGet(p)
    \/ \E p \in FilePaths, c \in FileContents : FilesPut(p, c)
    \/ \E p \in FilePaths : FilesDelete(p)
    \/ \E from \in MovePaths \cup {NoParam}, to \in MovePaths : FilesMove(from, to)

SpecFiles == Init /\ [][NextFiles]_vars

----------------------------------------------------------------------------
(* SpecFilesRoutes: files at the top of the home directory, one of them    *)
(* named "move", reached through the routes of the file API                *)

RoutePaths == {"a", "b", "move"}

NextFilesRoutes ==
    \/ FilesList("")
    \/ \E p \in RoutePaths : FilesGet(p)
    \/ \E p \in RoutePaths, c \in FileContents : FilesPut(p, c)
    \/ \E p \in RoutePaths : FilesDelete(p)
    \/ \E from \in RoutePaths, to \in RoutePaths : FilesMove(from, to)

SpecFilesRoutes == Init /\ [][NextFilesRoutes]_vars

----------------------------------------------------------------------------
(* SpecLogs: the log store of one computer *)

NextLogs ==
    \/ \E batch \in LogBatches : writeLogs(batch)
    \/ \E before \in LogBefores, search \in LogSearches, limit \in LogLimits :
            ListLogs(before, search, limit)
    \/ Tick

SpecLogs == Init /\ [][NextLogs]_vars

\* SpecLogsLimit: the same store read with every kind of limit: none (0, as
\* `!ops.limit` takes both), smaller and larger than the window, negative
PassedLimits == {-1, 0, 1, 2}
LimitSearches == {NoParam, "LOG"}

NextLogsLimit ==
    \/ \E batch \in LogBatches : writeLogs(batch)
    \/ \E before \in LogBefores, search \in LimitSearches,
          limit \in PassedLimits : ListLogs(before, search, limit)
    \/ Tick

SpecLogsLimit == Init /\ [][NextLogsLimit]_vars

----------------------------------------------------------------------------
(* SpecLogSearch: full-text search in the log store *)

NextLogSearch ==
    \/ \E batch \in SearchBatches : writeLogs(batch)
    \/ \E search \in SearchStrings, limit \in SearchLimits :
            ListLogs(NoParam, search, limit)
    \/ Tick

SpecLogSearch == Init /\ [][NextLogSearch]_vars

----------------------------------------------------------------------------
(* SpecLogPages: a caller pages backwards through the log store *)

\* Three entries of one nanosecond a day before the start and one entry a
\* day older, written one at a time or as one batch.
PageTestBatch ==
    <<[ts |-> genTimestamp(1), log |-> "first"],
      [ts |-> genTimestamp(1), log |-> "second"],
      [ts |-> genTimestamp(1), log |-> "third"],
      [ts |-> genTimestamp(2), log |-> "older"]>>

PageBatches ==
    {<<PageTestBatch[i]>> : i \in 1..Len(PageTestBatch)} \cup {PageTestBatch}

\* The `before` of a call: none for the first page, else the timestamp of an
\* entry, which is what the caller takes from the last row of a page.
PageBefores == {NoParam, genTimestamp(1), genTimestamp(2)}
PageLimits == {1, 2}

NextLogPages ==
    \/ \E batch \in PageBatches : writeLogs(batch)
    \/ \E before \in PageBefores, limit \in PageLimits :
            ListLogs(before, NoParam, limit)
    \/ Tick

SpecLogPages == Init /\ [][NextLogPages]_vars

----------------------------------------------------------------------------
(* SpecRegistry: the registry of computers, started empty or with a row of *)
(* the schema generation without secrets                                   *)

InitRegistry ==
    /\ S3Init /\ FilesInit /\ PathInit /\ LogsInit /\ AuthInit /\ PtyInit
    /\ ConfigInit
    /\ computers \in {{}, {LegacyComputer}}
    /\ minted = 0
    /\ regReq = <<>>
    /\ regResp = <<>>

NextRegistry ==
    \/ \E displayName \in DisplayNames : createComputer(displayName)
    \/ \E slug \in Slugs \cup {LegacyComputer.slug} : getComputer(slug)
    \/ listComputers

SpecRegistry == InitRegistry /\ [][NextRegistry]_vars

\* SpecSlugs: computers created under names of every kind of character:
\* letters of both cases, digits, runs of spaces, hyphens at the edges and
\* in runs, punctuation, and the underscore
MaxComputers == 3       \* rows of table computers in one run

SlugNames == {"My  PC 2", "a_b", "_", "-a--b-", "x!y", " - ", "!"}

NextSlugs ==
    \/ \E displayName \in SlugNames :
            Cardinality(computers) < MaxComputers /\ createComputer(displayName)
    \/ listComputers

SpecSlugs == Init /\ [][NextSlugs]_vars

----------------------------------------------------------------------------
(* SpecLogsAuth: HTTP requests to the log store of one computer *)

InitLogsAuth ==
    /\ S3Init /\ FilesInit /\ PathInit /\ LogsInit /\ AuthInit /\ PtyInit
    /\ ConfigInit
    /\ computers = AuthComputers
    /\ minted = 2
    /\ regReq = <<>>
    /\ regResp = <<>>

NextLogsAuth ==
    \/ \E authorization \in Authorizations, route \in LogsRoutes :
            FetchLogs(authorization, route[1], LogsComputer, route[2], AuthBatch)
    \/ \E slug \in {"alpha", "beta"} : RotateSecret(slug)

SpecLogsAuth == InitLogsAuth /\ [][NextLogsAuth]_vars

----------------------------------------------------------------------------
(* SpecS3Auth: requests to the blob store through the worker, with and      *)
(* without a token                                                          *)

\* Worker.handleS3Request: a path with a first segment is forwarded to the
\* S3 object of that bucket, the request unchanged.
handleS3Request(request) ==
    IF \/ Len(request.pathname) < 2
       \/ CharAt(request.pathname, 1) # "/"
       \/ CharAt(request.pathname, 2) = "/"
    THEN /\ s3req' = request
         /\ s3resp' = [Response("handleS3Request", 400) EXCEPT
                            !.body = "Invalid S3 path"]
         /\ UNCHANGED <<objects, multipart_uploads, multipart_parts, uuid>>
         /\ UNCHANGED exceptS3
    ELSE fetch(request)

\* A client sends a command with an Authorization header.
S3Send(authorization, command) ==
    /\ handleS3Request([command EXCEPT !.authorization = authorization])
    /\ s3cmd' = <<"b", "k">>
    /\ UNCHANGED inflight
    /\ UNCHANGED <<sent, shadow>>

\* The headers of the senders: none, the token of the computer as the
\* container's S3 client sends it, the same token signed with a secret the
\* registry does not hold, and an expired one.
S3Authorizations ==
    {NoAuthorization,
     Authorization("AWS4-HMAC-SHA256", JWT("alpha", SecretOf(1), FALSE)),
     Authorization("AWS4-HMAC-SHA256", JWT("alpha", SecretOf(3), FALSE)),
     Authorization("Bearer", JWT("alpha", SecretOf(1), TRUE))}

NextS3Auth ==
    \E a \in S3Authorizations :
        \/ \E d \in Payloads : S3Send(a, PutObjectCommand("b", "k", d))
        \/ S3Send(a, GetObjectCommand("b", "k"))
        \/ S3Send(a, HeadObjectCommand("b", "k"))
        \/ S3Send(a, DeleteObjectCommand("b", "k"))
        \/ S3Send(a, ListObjectsV2Command("b", NoParam, NoParam, NoParam))
        \/ S3Send(a, CreateMultipartUploadCommand("b", "k"))
        \/ \E u \in MintedUploadIds, d \in PartPayloads :
                S3Send(a, UploadPartCommand("b", "k", u, 1, d))
        \/ \E u \in MintedUploadIds :
                S3Send(a, CompleteMultipartUploadCommand("b", "k", u))
        \/ \E u \in MintedUploadIds :
                S3Send(a, AbortMultipartUploadCommand("b", "k", u))
        \/ S3Send(a, Request("GET", "/", ""))

SpecS3Auth == InitLogsAuth /\ [][NextS3Auth]_vars

----------------------------------------------------------------------------
(* SpecPty: one terminal session; SpecPtyFair: the same with every activity *)
(* of the server scheduled whenever it can run                              *)

handleWebSocket == webSocketToPty \/ cmdWait \/ tickerStop \/ close \/ wsClose

NextPty ==
    \/ webSocketToPty
    \/ cmdWait
    \/ tickerStop
    \/ close
    \/ wsClose
    \/ pingLoop
    \/ ptyToWebSocket
    \/ ShellOutput
    \/ ShellExit
    \/ \E frame \in SessionFrames : ClientSend(frame)
    \/ ClientClose

SpecPty == Init /\ [][NextPty]_vars

SpecPtyFair ==
    /\ SpecPty
    /\ SF_vars(handleWebSocket) /\ SF_vars(pingLoop) /\ SF_vars(ptyToWebSocket)

----------------------------------------------------------------------------
(* SpecTerminal: the input loop of one session under every shape of frame *)

NextTerminal ==
    \/ webSocketToPty
    \/ \E frame \in Frames : ClientSend(frame)
    \/ ShellExit
    \/ ClientClose

SpecTerminal == Init /\ [][NextTerminal]_vars

----------------------------------------------------------------------------
(* SpecS3Bound: one upload created for b/k, completed under every name *)

NextS3Bound ==
    \/ uuid = 0 /\ CreateMultipartUpload("b", "k")
    \/ \E u \in MintedUploadIds, d \in PartPayloads :
            UploadPart("b", "k", u, 1, d)
    \/ \E u \in MintedUploadIds, bucket \in {"b", "c"}, key \in {"k", "foo"} :
            CompleteMultipartUpload(bucket, key, u)
    \/ \E d \in PartPayloads : PutObject("c", "k", d)

SpecS3Bound == Init /\ [][NextS3Bound]_vars

----------------------------------------------------------------------------
(* SpecConfig: config.json written and loaded *)

NextConfig ==
    \/ \E segments \in SegmentsUpTo(MaxSegments) \ {<<>>} : WriteConfig(segments)
    \/ loadConfig

SpecConfig == Init /\ [][NextConfig]_vars

----------------------------------------------------------------------------
(* Properties of the blob store *)

\* sub occurs in s
Contains(s, sub) ==
    \E i \in 1..(Len(s) - Len(sub) + 1) : SubSeq(s, i, i + Len(sub) - 1) = sub

\* The elements of a sequence
Range(seq) == {seq[i] : i \in 1..Len(seq)}

\* What the store answers now to GetObject and to an unfiltered ListObjectsV2.
GetOf(bucket, key) == readResponse(objects, GetObjectCommand(bucket, key))
ListOf(bucket) ==
    readResponse(objects, ListObjectsV2Command(bucket, NoParam, NoParam, NoParam))

\* What GetObject would answer now for the key of the last request.
GetNow == readResponse(objects, [s3req EXCEPT !.method = "GET", !.body = ""])

\* C1: after a successful PutObject of body d under (bucket, key), GetObject of
\* the same (bucket, key) returns status 200, a body equal to d and a
\* Content-Length equal to len(d), whatever happened to the key before.
C1_PutGetRoundTrip ==
    (s3resp.op = "PutObject" /\ s3resp.status = 200) =>
        /\ GetNow.status = 200
        /\ GetNow.body = s3req.body
        /\ GetNow.contentLength = Len(s3req.body)

\* A body of more than one chunk was put after a multipart upload was created.
C1_Witness ==
    /\ s3resp.op = "PutObject" /\ s3resp.status = 200
    /\ Len(s3req.body) > CHUNK_SIZE
    /\ uuid > 0
    /\ \E r \in objects : r.chunk_index = 1

\* C2: after CompleteMultipartUpload succeeds, GetObject of the target key
\* returns the bodies of the uploaded parts (the last body of each part number)
\* joined in ascending part-number order, and a Content-Length equal to the sum
\* of their sizes.
C2_MultipartConcatenation ==
    (s3resp.op = "CompleteMultipartUpload" /\ s3resp.status = 200) =>
        /\ GetNow.status = 200
        /\ GetNow.body = shadow[s3cmd]
        /\ GetNow.contentLength = Len(shadow[s3cmd])

\* An upload of two parts, one of them larger than a chunk, was completed.
C2_Witness ==
    /\ s3resp.op = "CompleteMultipartUpload" /\ s3resp.status = 200
    /\ shadow[s3cmd] \in {"pqrs", "qrsp"}

\* C6: AbortMultipartUpload answers 204, removes the upload record and every
\* part row of the upload id, and leaves the table of objects as it was: a key
\* without an object still answers 404 and an existing object is unchanged.
C6_AbortLeavesNoTrace ==
    [][s3resp'.op = "AbortMultipartUpload" =>
        /\ s3resp'.status = 204
        /\ \A u \in multipart_uploads' : u.upload_id # s3req'.uploadId
        /\ \A r \in multipart_parts' : r.upload_id # s3req'.uploadId
        /\ objects' = objects
        /\ readResponse(objects', GetObjectCommand(s3cmd'[1], s3cmd'[2]))
            = readResponse(objects, GetObjectCommand(s3cmd'[1], s3cmd'[2]))]_vars

\* An upload was aborted while an object was stored under its target key.
C6_Witness ==
    /\ s3resp.op = "AbortMultipartUpload" /\ s3resp.status = 204
    /\ multipart_uploads = {} /\ multipart_parts = {}
    /\ getObject("b", "k", FALSE).status = 200

\* C3: "foo" and "foo/" are distinct objects: as long as the client has put a
\* body under one of them and not deleted that key, List returns that key and
\* Get returns that body, whatever was put or deleted under the other key.
C3_SlashKeysDistinct ==
    \A k \in SlashKeys :
        shadow[<<"b", k>>] # NoObject =>
            /\ k \in Range(ListOf("b").keys)
            /\ GetOf("b", k).status = 200
            /\ GetOf("b", k).body = shadow[<<"b", k>>]

\* C4: a key that arrives percent-encoded is stored decoded: Get with the same
\* key returns the object, and List returns the key as the client named it,
\* without a percent-escape.
C4_KeysStoredDecoded ==
    shadow[<<"b", EncodedKey>>] # NoObject =>
        /\ GetOf("b", EncodedKey).status = 200
        /\ GetOf("b", EncodedKey).body = shadow[<<"b", EncodedKey>>]
        /\ EncodedKey \in Range(ListOf("b").keys)
        /\ \A k \in Range(ListOf("b").keys) :
                ~Contains(k, "%20") /\ ~Contains(k, "%26") /\ ~Contains(k, "%21")

\* The keys of a bucket that have a chunk-0 row.
StoredKeys(bucket) ==
    {r.key : r \in {x \in objects : x.bucket = bucket /\ x.chunk_index = 0}}

\* C5: an untruncated List(bucket, prefix = p) returns exactly the stored keys
\* of that bucket that start with p as a literal, case-sensitive string, each
\* exactly once.
C5_ListPrefixLiteral ==
    (s3resp.op = "ListObjectsV2" /\ s3resp.status = 200 /\ ~s3resp.isTruncated) =>
        LET p == OrDefault(s3req.prefix, "")
        IN  /\ Range(s3resp.keys)
                = {k \in StoredKeys(s3cmd[1]) : StartsWith(k, p)}
            /\ Len(s3resp.keys) = Cardinality(Range(s3resp.keys))

----------------------------------------------------------------------------
(* Properties of the file API *)

\* The path a request to /api/files/<path> names, resolved.
Target(r) == validateAndResolvePath(TrimPrefix(r.urlPath, "/api/files/"))

\* p is the sandbox root or lies inside it.
InsideRoot(p) == p = SandboxRoot \/ StartsWith(p, SandboxRoot \o "/")

\* C7: a Delete of a file that does not exist answers 204 and leaves the
\* filesystem as it was.
C7_DeleteMissingSucceeds ==
    [][(/\ fileResp'.op = "Delete"
        /\ ~Target(fileReq').err
        /\ Target(fileReq').path \notin DOMAIN fs)
       => (fileResp'.status = 204 /\ fs' = fs)]_vars

\* C8: every filesystem call of a handler of the file API is given the
\* sandbox root or a path inside it.
C8_CallsInsideRoot ==
    \A i \in 1..Len(fsCalls) : InsideRoot(fsCalls[i].path)

\* C9: "../../etc/passwd" and "/../secret" are both refused, and "a/b/../c"
\* resolves to a/c under the root.
C9_NamedPaths ==
    resolved # <<>> =>
        /\ relativePath \in {"../../etc/passwd", "/../secret"} => resolved[1].err
        /\ relativePath = "a/b/../c" =>
                (~resolved[1].err /\ resolved[1].path = SandboxRoot \o "/a/c")

----------------------------------------------------------------------------
(* Properties of the log store *)

\* The timestamp of a returned row, in nanoseconds.
TsOf(row) == row.ts_sec * NANOS_PER_SEC + row.ts_nsec

\* The upper bound of a getLogs call: `before`, else the current time.
UpperBound(ops, nowMs) ==
    IF ops.before # NoParam THEN BigInt(ops.before) ELSE nowMs * NANOS_PER_MILLI

\* C10: getLogs returns only entries whose timestamp t satisfies
\* U - 604800 s <= t < U, U being `before` or else the current time.
C10_TimeWindow ==
    [][(logReq'.op = "getLogs" /\ now' = now) =>
        \A i \in 1..Len(logResp') :
            /\ UpperBound(logReq', now) - WINDOW_SEC * NANOS_PER_SEC
                    <= TsOf(logResp'[i])
            /\ TsOf(logResp'[i]) < UpperBound(logReq', now)]_vars

\* The rows of the table inside the window U - 604800 s <= t < U.
InWindow(table, ops, nowMs) ==
    {r \in table : /\ UpperBound(ops, nowMs) - WINDOW_SEC * NANOS_PER_SEC <= TsOf(r)
                   /\ TsOf(r) < UpperBound(ops, nowMs)}

\* The rowids of the rows of a response.
RowIds(rows) == {rows[i].rowid : i \in 1..Len(rows)}

\* The limit in force for a call of getLogs.
LimitOf(ops) == IF ops.limit = 0 THEN DEFAULT_LIMIT ELSE ops.limit

\* hl is log with one span that equals s, letter case ignored, wrapped in
\* <mark>...</mark>.
MarksSpan(hl, log, s) ==
    \E i \in 1..(Len(log) - Len(s) + 1) :
        /\ Lower(SubSeq(log, i, i + Len(s) - 1)) = Lower(s)
        /\ Contains(hl, "<mark>" \o SubSeq(log, i, i + Len(s) - 1) \o "</mark>")

----------------------------------------------------------------------------
(* Properties of the registry of computers *)

\* The i-th candidate slug of a base slug: base, base-1, base-2, ...
Candidate(base, i) == IF i = 0 THEN base ELSE base \o "-" \o ToString(i)

\* The candidates of a base slug that no computer has.
FreeCandidates(table, base) ==
    {i \in 0..(maxAttempts - 1) : \A r \in table : r.slug # Candidate(base, i)}

\* C14: createComputer gives the new computer the first free slug of base,
\* base-1, ..., the last candidate being base-(maxAttempts - 1); when every
\* candidate is taken it fails and creates no computer.
C14_FirstFreeSlug ==
    [][(regReq'[1] = "createComputer" /\ generateSlug(Trim(regReq'[2])) # "") =>
        LET base == generateSlug(Trim(regReq'[2]))
            free == FreeCandidates(computers, base)
        IN  IF free = {}
            THEN ~regResp'.success /\ regResp'.error # "" /\ computers' = computers
            ELSE /\ regResp'.success
                 /\ regResp'.computer.slug
                        = Candidate(base, CHOOSE i \in free : \A j \in free : i <= j)
                 /\ computers' = computers \cup {regResp'.computer}
                 /\ regResp'.computer \notin computers]_vars

\* Two computers named "My Computer" have the slugs my-computer and
\* my-computer-1.
C14_Witness ==
    /\ regReq = <<"createComputer", "My Computer">>
    /\ regResp.success /\ regResp.computer.slug = "my-computer-1"
    /\ \E r \in computers : r.name = "My Computer" /\ r.slug = "my-computer"

\* C15: no two computers have the same slug, no computer is removed, and a
\* computer keeps its slug; getComputer and listComputers add no computer and
\* change nothing but an empty list of secrets.
C15_SlugsUniqueAndStable ==
    [][/\ \A r, q \in computers' : r.slug = q.slug => r = q
       /\ \A r \in computers : \E q \in computers' : q.id = r.id /\ q.slug = r.slug
       /\ (regReq' # <<>> /\ regReq'[1] \in {"getComputer", "listComputers"}) =>
            /\ {r.id : r \in computers'} = {r.id : r \in computers}
            /\ \A r \in computers :
                    r \in computers'
                    \/ (r.secrets = <<>> /\ \E q \in computers' :
                            /\ q.secrets # <<>>
                            /\ q = [r EXCEPT !.secrets = q.secrets])]_vars

\* getComputer filled in the secrets of the row without secrets, next to two
\* computers created under the same name.
C15_Witness ==
    /\ regReq = <<"getComputer", "old">>
    /\ regResp # <<>> /\ regResp.secrets # <<>>
    /\ \E r, q \in computers : r.name = q.name /\ r.slug # q.slug

----------------------------------------------------------------------------
(* Properties of the authentication of the log store *)

\* The secrets the registry holds for a computer; none for an unknown one.
Registered(table, slug) ==
    IF \E r \in table : r.slug = slug
    THEN (CHOOSE r \in table : r.slug = slug).secrets ELSE <<>>

\* The header is a bearer token of three parts with a decodable payload
\* that names a subject.
WellFormed(authorization) ==
    /\ authorization.scheme = "Bearer"
    /\ authorization.token.parts = 3
    /\ authorization.token.decodable
    /\ authorization.token.sub # ""

\* The header carries a well-formed token that verifies against the secrets
\* registered for its subject.
TokenVerifies(authorization, table) ==
    /\ authorization.scheme # ""
    /\ authorization.token.parts = 3
    /\ authorization.token.decodable
    /\ authorization.token.sub # ""
    /\ verifyToken(authorization.token,
                   Registered(table, authorization.token.sub))

\* C13: a request to the blob store whose token is missing or does not
\* verify is answered with an error status and leaves objects, uploads and
\* parts as they were.
C13_S3VerifiesToken ==
    [][~TokenVerifies(s3req'.authorization, computers) =>
        /\ s3resp'.status >= 400
        /\ UNCHANGED <<objects, multipart_uploads, multipart_parts>>]_vars

\* C12: Logs.fetch of the Logs object of computer T calls writeLogs or
\* getLogs only for a request whose token names T as its subject and
\* verifies against the secrets registered for T.
C12_SubjectIsTenant ==
    [][(httpResp' # httpResp /\ httpResp'.called # "") =>
        /\ WellFormed(httpReq'.authorization)
        /\ httpReq'.authorization.token.sub = LogsComputer
        /\ verifyToken(httpReq'.authorization.token,
                       Registered(computers', LogsComputer))]_vars

\* The request fails authentication: its header is not a well-formed bearer
\* token, or the token verifies neither against the secrets registered for
\* its subject nor against the ones cached for it.
FailsAuthentication(request, table, cache) ==
    \/ ~WellFormed(request.authorization)
    \/ /\ ~verifyToken(request.authorization.token,
                       Registered(table, request.authorization.token.sub))
       /\ ~(/\ CacheHas(cache, request.authorization.token.sub)
            /\ verifyToken(request.authorization.token,
                           CacheGet(cache, request.authorization.token.sub)))

\* C19: a request that fails authentication is answered with status 401,
\* with the same error message as every other such request, and neither
\* writes nor reads logs.
C19_UniformAuthError ==
    [][(httpResp' # httpResp
            /\ FailsAuthentication(httpReq', computers, secretsCache)) =>
        /\ httpResp'.status = 401
        /\ httpResp'.called = ""
        /\ logs' = logs /\ logResp' = logResp
        /\ httpResp.status = 401 => httpResp'.error = httpResp.error]_vars

\* C20: while authenticating one request Logs.fetch calls getComputer at
\* most once and verifyToken at most twice: with the cached secrets if there
\* are any and, only if there were none or they failed, with the secrets
\* fetched from the registry, which replace the cache entry; a token that
\* verifies against the registered secrets is accepted by this request,
\* whatever the cache held.
C20_RetryOnceWithFreshSecrets ==
    [][(httpResp' # httpResp /\ WellFormed(httpReq'.authorization)) =>
        LET token == httpReq'.authorization.token
            hit == CacheHas(secretsCache, token.sub)
            cachedOk == hit /\ verifyToken(token, CacheGet(secretsCache, token.sub))
        IN  /\ httpResp'.queries = (IF cachedOk THEN 0 ELSE 1)
            /\ httpResp'.verifications
                    = (IF hit THEN 1 ELSE 0)
                        + (IF ~cachedOk /\ Registered(computers', token.sub) # <<>>
                           THEN 1 ELSE 0)
            /\ httpResp'.verifications <= 2
            /\ (~cachedOk /\ Registered(computers', token.sub) # <<>>) =>
                    /\ CacheHas(secretsCache', token.sub)
                    /\ CacheGet(secretsCache', token.sub)
                            = Registered(computers', token.sub)
            /\ cachedOk => secretsCache' = secretsCache
            /\ verifyToken(token, Registered(computers, token.sub)) =>
                    httpResp'.status # 401]_vars

\* A token signed with a secret rotated in after the cache was filled was
\* accepted by the first request that carried it, after one call of
\* getComputer and two of verifyToken.
C20_Witness ==
    /\ httpResp.called = "writeLogs"
    /\ httpResp.queries = 1 /\ httpResp.verifications = 2
    /\ httpReq.authorization.token = JWT(LogsComputer, SecretOf(3), FALSE)
    /\ CacheGet(secretsCache, LogsComputer) = <<SecretOf(3)>>

----------------------------------------------------------------------------
(* Properties of the terminal session *)

\* The session is torn down: the flag is set, the pty is closed and the
\* shell no longer runs.
TornDown == closed /\ ~ptmxOpen /\ shell # "running"

\* C16: once the client's side of the WebSocket has failed or closed while
\* the shell runs, the shell is eventually killed and the pty closed.
C16_SocketDownKillsShell ==
    (ws = "failed" /\ shell = "running") ~> TornDown

\* C17: once the shell has ended while the client is connected, the server
\* eventually closes the WebSocket and the session is closed, unless the
\* client's side fails or the client sends a message.
C17_ShellExitClosesSocket ==
    (shell = "exited" /\ ws = "open" /\ inbox = <<>>)
        ~> ((ws = "closed" /\ closed) \/ ws = "failed" \/ inbox # <<>>)

\* C18: the teardown body of close runs at most once in a session, and the
\* flag closed, once true, stays true.
C18_TeardownOnce ==
    [][teardowns' <= 1 /\ (closed => closed')]_vars

\* The teardown has run while the ping goroutine and the goroutine that
\* copies the pty were both still active, and the handler has finished.
C18_Witness ==
    /\ teardowns = 1 /\ closed /\ hpc = "done"
    /\ ppc # "done" /\ rpc = "lock"

----------------------------------------------------------------------------
(* Properties of the logging of the file API *)

\* The operations of the file API, as the handlers name them.
FileOps == {"List", "Get", "Put", "Delete", "Move"}

\* C21: each operation of the file API sends one log line with its method,
\* path, status and size to the write endpoint of the log store.
C21_FileOpsLogged ==
    [][(fileResp'.op \in FileOps /\ fileResp'.status # 405) =>
        posted' = logRequest(posted, fileReq'.method, fileReq'.urlPath,
                             fileResp'.status, Len(fileResp'.body))]_vars

----------------------------------------------------------------------------
(* Properties of the chunks of the blob store *)

\* The rows of table objects of one (bucket, key)
ChunksOf(objs, bucket, key) ==
    {r \in objs : r.bucket = bucket /\ r.key = key}

RECURSIVE SumOfDataLengths(_)
SumOfDataLengths(rows) ==
    IF rows = {} THEN 0
    ELSE LET r == CHOOSE x \in rows : TRUE
         IN Len(r.data) + SumOfDataLengths(rows \ {r})

WellChunked(rows) ==
    /\ {r.chunk_index : r \in rows} = 0..(Cardinality(rows) - 1)
    /\ \A r \in rows : Len(r.data) <= CHUNK_SIZE
    /\ \E r \in rows :
            /\ r.chunk_index = 0
            /\ r.etag # "" /\ r.content_type # ""
            /\ r.size = SumOfDataLengths(rows)

\* C22: every stored object has a chunk 0 with its metadata, chunk indices
\* 0, 1, ..., n-1, no chunk larger than CHUNK_SIZE, and chunk data lengths
\* that add up to the size recorded on chunk 0.
C22_ChunkInvariant ==
    \A r \in objects : WellChunked(ChunksOf(objects, r.bucket, r.key))

\* An object of several chunks that came from a completed upload of two
\* parts, the first longer than a chunk.
C22_Witness ==
    /\ s3resp.op = "CompleteMultipartUpload" /\ s3resp.status = 200
    /\ \E r \in objects : r.chunk_index = 2
    /\ \E r \in objects : r.chunk_index = 0 /\ r.size = 4

\* The payloads a completed upload can have: one part, or two in the order
\* of their part numbers.
CompletePayloads ==
    PartPayloads \cup {p \o q : p \in PartPayloads, q \in PartPayloads}

\* The response shows one whole payload: its length, and the etag computed
\* from it or the etag of the upload it was assembled from.
OnePayload(resp, body) ==
    /\ resp.contentLength = Len(body)
    /\ \/ resp.etag = MD5(body) /\ body \in Payloads
       \/ /\ \E u \in MintedUploadIds, n \in PartNumbers :
                resp.etag = CompleteETag(u, n)
          /\ body \in CompletePayloads

\* C23: with puts of the same key suspended at their awaits while other
\* requests run, every GetObject and HeadObject answers 404 or shows one
\* request's whole payload with the size and etag of that payload.
C23_ReadsSeeOnePayload ==
    [][s3resp'.op \in {"GetObject", "HeadObject"} =>
        \/ s3resp'.status = 404
        \/ /\ s3resp'.status = 200
           /\ s3resp'.op = "GetObject" => OnePayload(s3resp', s3resp'.body)
           /\ s3resp'.op = "HeadObject" =>
                \E body \in Payloads \cup CompletePayloads :
                    OnePayload(s3resp', body)]_vars

\* A GetObject answered while two puts of the key with different bodies are
\* suspended, after a longer object was stored.
C23_Witness ==
    /\ s3resp.op = "GetObject" /\ s3resp.status = 200
    /\ \E e1 \in inflight, e2 \in inflight :
            /\ e1.request.body # e2.request.body
            /\ e1.at = "digest"
            /\ Len(e1.request.body) < Len(s3resp.body)

----------------------------------------------------------------------------
(* Properties of the paging of the list *)

\* The keys of the bucket that the list's prefix filter lets through and
\* that come after the token, in ascending order.
KeysAfter(objs, bucket, prefix, token) ==
    OrderByKey({x.key : x \in {r \in objs :
                    /\ r.bucket = bucket /\ r.chunk_index = 0
                    /\ PrefixFilter(r.key, OrDefault(prefix, ""))
                    /\ OrDefault(token, "") # "" => StrLess(token, r.key)}})

\* The keys a client collects that lists from `token` on and follows the
\* continuation tokens while IsTruncated is true, with at most `fuel`
\* further requests; done tells whether it reached a page that is not
\* truncated.
RECURSIVE FollowTokens(_, _, _, _, _, _)
FollowTokens(objs, bucket, prefix, maxKeys, token, fuel) ==
    LET Next(resp) ==
            IF ~resp.isTruncated THEN [done |-> TRUE, keys |-> resp.keys]
            ELSE IF fuel = 0 THEN [done |-> FALSE, keys |-> resp.keys]
            ELSE LET Rest(rest) ==
                        [done |-> rest.done, keys |-> resp.keys \o rest.keys]
                 IN  Rest(FollowTokens(objs, bucket, prefix, maxKeys,
                            IF resp.nextContinuationToken = "" THEN NoParam
                            ELSE resp.nextContinuationToken, fuel - 1))
    IN  Next(listObjectsV2In(objs, bucket,
                ListObjectsV2Command(bucket, prefix, maxKeys, token)))

\* One page: the first maxKeys of the keys after the token, truncated
\* exactly when keys remain, and then with the last key as the token.
PageOk(objs, bucket, req, resp) ==
    LET Expected(expected, maxKeys) ==
            /\ resp.keys = SubSeq(expected, 1, Min(maxKeys, Len(expected)))
            /\ resp.isTruncated <=> Len(expected) > Len(resp.keys)
            /\ resp.isTruncated =>
                    /\ Len(resp.keys) > 0
                    /\ resp.nextContinuationToken = resp.keys[Len(resp.keys)]
    IN  Expected(KeysAfter(objs, bucket, req.prefix, req.continuationToken),
                 parseInt(OrDefault(req.maxKeys, DEFAULT_MAX_KEYS)))

\* C24: a list returns the first maxKeys matching keys after the token in
\* ascending order, is truncated exactly when keys remain, gives the last
\* key as the token, and following the tokens from the first page reaches
\* a page that is not truncated having collected every matching key once.
C24_Pagination ==
    [][(s3resp'.op = "ListObjectsV2" /\ s3resp'.status = 200) =>
        /\ PageOk(objects', s3cmd'[1], s3req', s3resp')
        /\ FollowTokens(objects', s3cmd'[1], s3req'.prefix, s3req'.maxKeys,
                        NoParam, Cardinality(objects'))
                = [done |-> TRUE,
                   keys |-> KeysAfter(objects', s3cmd'[1], s3req'.prefix,
                                      NoParam)]]_vars

----------------------------------------------------------------------------
(* Properties of the errors of completeMultipartUpload *)

\* C25: completing an upload the store does not know is answered 404
\* NoSuchUpload, completing one without parts 400 InvalidPart, and neither
\* changes the objects, the uploads or the parts.
C25_CompleteErrors ==
    [][s3resp'.op = "CompleteMultipartUpload" =>
        LET known == \E u \in multipart_uploads : u.upload_id = s3req'.uploadId
            parts == {r \in multipart_parts : r.upload_id = s3req'.uploadId}
        IN  /\ ~known =>
                /\ s3resp'.status = 404 /\ s3resp'.code = "NoSuchUpload"
                /\ UNCHANGED <<objects, multipart_uploads, multipart_parts>>
            /\ (known /\ parts = {}) =>
                /\ s3resp'.status = 400 /\ s3resp'.code = "InvalidPart"
                /\ UNCHANGED <<objects, multipart_uploads, multipart_parts>>]_vars

\* An upload without parts was refused while an object is stored at its key.
C25_Witness ==
    /\ s3resp.op = "CompleteMultipartUpload" /\ s3resp.code = "InvalidPart"
    /\ multipart_uploads # {} /\ multipart_parts = {}
    /\ \E r \in objects : r.key = "k"

----------------------------------------------------------------------------
(* Properties of the input loop of the terminal *)

\* The text parses as JSON and the object it denotes has type "resize".
ParsesAsResize(data) == ~Unmarshal(data).err /\ Unmarshal(data).Type = "resize"

\* The handler took the frame at the head of the inbox.
FrameTaken == hpc = "read" /\ inbox # <<>> /\ inbox' = Tail(inbox)

\* C26: a text frame that parses as JSON with type "resize" sets the window
\* size and is never written to the shell; every other text frame is written
\* to the pty as it came and after the frames before it, unless the write
\* fails and ends the loop.
C26_ResizeOrInput ==
    [][(FrameTaken /\ Head(inbox).msgType = "text")
        => IF ParsesAsResize(Head(inbox).data)
           THEN /\ toShell' = toShell
                /\ winsize' = <<Unmarshal(Head(inbox).data).Rows,
                                Unmarshal(Head(inbox).data).Cols>>
           ELSE \/ toShell' = Append(toShell, Head(inbox).data)
                \/ hpc' = "wait" /\ toShell' = toShell]_vars

----------------------------------------------------------------------------
(* Properties of the writers of the socket *)

\* C27: the relay of the pty output and the keepalive ping never write to the
\* socket at the same time: each of them writes only while it holds the
\* mutex of the session, and neither writes once the closed flag is set.
C27_WritesUnderMutex ==
    /\ ~(ppc = "write" /\ rpc = "write")
    /\ ppc = "write" => (mu = "ping" /\ ~closed)
    /\ rpc = "write" => (mu = "reader" /\ ~closed)

\* The relay is writing while the ping waits for the mutex and the handler
\* has left its loop.
C27_Witness == rpc = "write" /\ ppc = "lock" /\ hpc = "close"

----------------------------------------------------------------------------
(* Properties of the limit of getLogs *)

\* The entries a call of getLogs chooses from: those of its window, and of
\* them the ones the search finds when there is a search.
Candidates(table, ops, nowMs) ==
    IF Truthy(ops.search)
    THEN {r \in InWindow(table, ops, nowMs) : Match(r.log, ops.search)}
    ELSE InWindow(table, ops, nowMs)

\* The most entries a call may return: the limit, 100 when none is given,
\* nothing for a limit below zero.
AtMost(ops) == IF ops.limit < 0 THEN 0 ELSE LimitOf(ops)

\* C28: getLogs returns entries in descending order of (seconds,
\* nanoseconds), never more than `limit` of them (100 when no limit is
\* given), whatever integer the caller passes as limit; when there are more
\* entries than the limit, it returns the newest.
C28_LimitNewestFirst ==
    [][(logReq'.op = "getLogs" /\ now' = now) =>
        /\ \A i \in 1..Len(logResp') : \A j \in i..Len(logResp') :
                TsOf(logResp'[i]) >= TsOf(logResp'[j])
        /\ Len(logResp') <= AtMost(logReq')
        /\ Cardinality(Candidates(logs, logReq', now)) > AtMost(logReq')
            => /\ Len(logResp') = AtMost(logReq')
               /\ \A x \in Candidates(logs, logReq', now) :
                    x.rowid \notin RowIds(logResp')
                    => \A i \in 1..Len(logResp') :
                            TsOf(x) <= TsOf(logResp'[i])]_vars

----------------------------------------------------------------------------
(* Properties of paging through the logs *)

\* The last row of a page, which is its oldest.
OldestOf(page) == page[Len(page)]

\* The step asks for the page after the one just answered: the same search
\* and limit, `before` the timestamp of the oldest row of that page, and the
\* table as it was.
NextPageStep ==
    /\ logReq.op = "getLogs"
    /\ logResp # <<>>
    /\ logReq'.op = "getLogs"
    /\ logReq'.before = ToString(TsOf(OldestOf(logResp)))
    /\ logReq'.search = logReq.search
    /\ logReq'.limit = logReq.limit
    /\ logs' = logs

\* Row x of the table lies between the page prev and the page next that
\* follows it: it is not on prev, it is not newer than the oldest row of
\* prev, and it is newer than the oldest row of next; when next is empty,
\* every such row of the week before the oldest row of prev lies between.
BetweenPages(x, prev, next) ==
    /\ x.rowid \notin RowIds(prev)
    /\ TsOf(x) <= TsOf(OldestOf(prev))
    /\ IF next # <<>> THEN TsOf(x) > TsOf(OldestOf(next))
       ELSE x.ts_sec >= OldestOf(prev).ts_sec - WINDOW_SEC

\* C39: paging backwards by re-issuing getLogs with `before` set to the
\* timestamp of the oldest entry of the previous page never returns an entry
\* twice and never skips an entry that lies between the pages, also when
\* several entries share the exact timestamp of a page's last entry.
C39_PagingComplete ==
    [][NextPageStep =>
        /\ RowIds(logResp) \cap RowIds(logResp') = {}
        /\ \A x \in logs :
            BetweenPages(x, logResp, logResp') => x.rowid \in RowIds(logResp')]_vars

----------------------------------------------------------------------------
(* Properties of Move of the file API *)

\* p or what lies below it
AtOrUnder(q, p) == q = p \/ Under(q, p)

\* The name under `to` of an entry q at or below `from`.
ImageOf(q, from, to) == to \o SubSeq(q, Len(from) + 1, Len(q))

\* after is before with the tree at from renamed to to: every entry of the
\* tree is found under its new name and no longer under its old one, nothing
\* else is at or below to, the entries outside are as they were, and the only
\* new ones are directories above to.
RenamedTo(before, after, from, to) ==
    LET tree == {q \in DOMAIN before : AtOrUnder(q, from)}
        images == {ImageOf(q, from, to) : q \in tree}
    IN  /\ \A q \in tree : /\ ImageOf(q, from, to) \in DOMAIN after
                            /\ after[ImageOf(q, from, to)] = before[q]
                            /\ q \in DOMAIN after => q \in images
        /\ \A q \in DOMAIN after : AtOrUnder(q, to) => q \in images
        /\ \A q \in DOMAIN before \ tree :
                ~AtOrUnder(q, to) => (q \in DOMAIN after /\ after[q] = before[q])
        /\ \A q \in DOMAIN after \ DOMAIN before :
                ~AtOrUnder(q, to) => (q \in ProperAncestors(to) /\ after[q].isDir)

\* after is before, but for new directories above to.
OnlyParentsMade(before, after, to) ==
    /\ \A q \in DOMAIN before : q \in DOMAIN after /\ after[q] = before[q]
    /\ \A q \in DOMAIN after \ DOMAIN before :
            q \in ProperAncestors(to) /\ after[q].isDir

\* What the claim asks of a move from f to t (both as resolved).
MoveOk(before, after, status, f, t) ==
    IF f.err \/ t.err THEN status = 400 /\ after = before
    ELSE IF f.path \notin DOMAIN before THEN status = 404 /\ after = before
    ELSE \/ status = 200 /\ RenamedTo(before, after, f.path, t.path)
         \/ status = 500 /\ OnlyParentsMade(before, after, t.path)

\* C29: Move validates both paths, answers 404 and changes nothing when the
\* source does not exist, and otherwise renames the source to the destination
\* in one step after creating the parents of the destination, all or nothing;
\* a source directory is never merged into a destination directory.
C29_MoveRenames ==
    [][(fileResp'.op = "Move" /\ fileReq'.from # NoParam) =>
        MoveOk(fs, fs', fileResp'.status,
               validateAndResolvePath(fileReq'.from),
               validateAndResolvePath(fileReq'.to))]_vars

----------------------------------------------------------------------------
(* Properties of Put of the file API *)

\* The path of a request names a folder: it ends in a slash.
NamesFolder(r) ==
    Len(r.urlPath) > Len("/api/files/") /\ CharAt(r.urlPath, Len(r.urlPath)) = "/"

\* The entries a List of the home directory reports for the filesystem.
Listing(files) == handleAPIFilesList(files, "").files

\* C30: a Put that succeeds leaves the directories above its path in place
\* and the body as the content of the file, whatever was there; when the path
\* ends in a slash it leaves an entry that a following List reports as a
\* directory.
C30_PutCreatesOrMarks ==
    [][(fileResp'.op = "Put" /\ fileResp'.status = 200) =>
        /\ \A a \in ProperAncestors(Target(fileReq').path) :
                a \in DOMAIN fs' /\ fs'[a].isDir
        /\ IF NamesFolder(fileReq')
           THEN \E e \in Listing(fs') :
                    /\ e.path = toRelativePath(Target(fileReq').path)
                    /\ e.isDir
           ELSE /\ Target(fileReq').path \in DOMAIN fs'
                /\ fs'[Target(fileReq').path] = FileNode(fileReq'.body)]_vars

----------------------------------------------------------------------------
(* Properties of the slugs of the registry *)

SlugChars ==
    LET c == "0123456789abcdefghijklmnopqrstuvwxyz-"
    IN  {CharAt(c, i) : i \in 1..Len(c)}

\* Lowercase letters, digits and single hyphens, no hyphen at either end.
UrlSafe(slug) ==
    /\ Len(slug) > 0
    /\ \A i \in 1..Len(slug) : CharAt(slug, i) \in SlugChars
    /\ \A i \in 1..(Len(slug) - 1) :
            ~(CharAt(slug, i) = "-" /\ CharAt(slug, i + 1) = "-")
    /\ CharAt(slug, 1) # "-" /\ CharAt(slug, Len(slug)) # "-"

\* C31: the slug of every computer that createComputer made is non-empty and
\* made of lowercase ASCII letters, digits and single hyphens only, without a
\* hyphen at either end; every other character of the name, the underscore
\* included, is gone.
C31_SlugUrlSafe == \A r \in computers : UrlSafe(r.slug)

----------------------------------------------------------------------------
(* Properties of sanitizeJSONC *)

RECURSIVE KeptOf(_)
KeptOf(segments) ==
    IF segments = <<>> THEN ""
    ELSE Head(segments).kept \o KeptOf(Tail(segments))

\* C32: sanitizeJSONC removes the line comments and the block comments that
\* lie outside string literals and returns the string literals, whatever
\* they hold, and every other character as they are.
C32_CommentsStripped ==
    configRead # <<>> => configData = KeptOf(configRead)

----------------------------------------------------------------------------
(* Properties of the parts of multipart uploads *)

\* C33: every stored part belongs to an upload that exists: an UploadPart
\* for an upload id that was never created, or was completed or aborted,
\* stores nothing.
C33_PartsBelongToUploads ==
    \A part \in multipart_parts :
        \E upload \in multipart_uploads : upload.upload_id = part.upload_id

----------------------------------------------------------------------------
(* Properties of the key of a multipart upload *)

\* C34: an upload belongs to the bucket and key it was created for: a
\* CompleteMultipartUpload that names it with another bucket or key is
\* refused and stores no object.
C34_CompleteBoundToKey ==
    [][\A upload \in multipart_uploads :
        (/\ s3resp'.op = "CompleteMultipartUpload"
         /\ s3req'.uploadId = upload.upload_id
         /\ s3cmd' # <<upload.bucket, upload.key>>)
        => (s3resp'.status >= 400 /\ objects' = objects)]_vars

----------------------------------------------------------------------------
(* Properties of the continuation of a listing *)

\* C35: a List response that is truncated carries a continuation token,
\* whatever max-keys the client sent, 0 included.
C35_TruncatedHasToken ==
    (s3resp.op = "ListObjectsV2" /\ s3resp.status = 200 /\ s3resp.isTruncated)
        => s3resp.nextContinuationToken # ""

----------------------------------------------------------------------------
(* Properties of a failed Move *)

\* The handler got as far as os.Rename.
RenameCalled(calls) == \E i \in 1..Len(calls) : calls[i].call = "Rename"

\* C36: a Move that fails at the rename leaves the filesystem as it was
\* before the call: no parent directory made for the destination remains.
C36_FailedMoveChangesNothing ==
    [][(/\ fileResp'.op = "Move" /\ fileResp'.status = 500
        /\ RenameCalled(fsCalls'))
       => fs' = fs]_vars

----------------------------------------------------------------------------
(* Properties of the routes of the file API *)

\* What GET, PUT and DELETE of /api/files/<path> do to the file at abs.
FileServed(before, after, r, resp, abs) ==
    IF r.method = "GET"
    THEN resp.status = 200 /\ resp.body = before[abs].content /\ after = before
    ELSE IF r.method = "PUT"
    THEN /\ resp.status = 200
         /\ after = [before EXCEPT ![abs] = FileNode(r.body)]
    ELSE /\ resp.status = 204
         /\ after = [q \in DOMAIN before \ {abs} |-> before[q]]

\* C37: every file that List returns is read, overwritten and deleted by
\* GET, PUT and DELETE of /api/files/<its listed path>: no name is taken by
\* another route.
C37_ListedFilesReachable ==
    [][\A e \in Listing(fs) :
        (/\ ~e.isDir
         /\ fileReq'.urlPath = "/api/files/" \o e.path
         /\ fileReq'.method \in {"GET", "PUT", "DELETE"})
        => FileServed(fs, fs', fileReq', fileResp',
                      SandboxRoot \o "/" \o e.path)]_vars

----------------------------------------------------------------------------
(* Properties of the end of a terminal session *)

\* C38: once the handler of a session has returned, the relay of the pty
\* output and the ping goroutine have ended or end later: neither stays
\* blocked for ever.
C38_GoroutinesEnd ==
    (hpc = "done") ~> (ppc = "done" /\ rpc = "done")

====
